---- MODULE Spec2Model ----
(***************************************************************************)
(* State-machine model of the PenHive orchestrator core:                   *)
(*   - VirtualMachinePool and VirtualMachineManager (deploy / find /       *)
(*     delete / health check),                                             *)
(*   - CONCURRENCY::EventDispatcher and Timer,                             *)
(*   - the VirtualMachine lifecycle state machine.                         *)
(* Each part has its own specification over the shared variables.          *)
(***************************************************************************)
EXTENDS Integers, Sequences, FiniteSets, TLC

\* ------------------------------------------------------------------------
\* Bounds of the model
\* ------------------------------------------------------------------------
NumCallers == 2
MaxId == 2
PortSpan == 1
CpuMin == 1
CpuMax == 3
NumWorkers == 2
MaxTasks == 2
NumTimers == 1
MaxTicks == 2
MaxDecisions == 2
MaxQueue == 2
MaxMonTicks == 3
MaxAppends == 3
MaxVcpus == 6
MaxHandles == 3
MaxPids == 3
MaxRounds == 3
ExecHorizon == 6
MaxElapsed == 200

\* ------------------------------------------------------------------------
\* Program constants
\* ------------------------------------------------------------------------
PortLo == 5900
PortHi == PortLo + PortSpan
NoPort == -1
NoThread == 0
CpuPeriod == 100000

HcTimer == 0

Callers == 1..NumCallers
Workers == 1..NumWorkers
UserTimers == 1..NumTimers
Timers == {HcTimer} \cup UserTimers
Names == {"vm-a", "vm-b"}
PortRange == PortLo..PortHi

VARIABLES
    \* VirtualMachinePool
    nextId, entries,
    \* host and hypervisor as seen by the manager
    boundPorts, conn, defined, active,
    \* VirtualMachineManager callers
    managerMutex, pc, opName, opExisted, lastRet,
    \* VirtualMachine (lifecycle state machine)
    status, domain, restartPc, vmLast,
    cfgVcpus, limitCur, cgroupCpuMax, snapshots,
    \* EventDispatcher, Timer and the health check that runs on them
    running, ioStopped, queue, workerSt, workerTm, nextTask, executed,
    stopPc, stopSnap,
    timerSt, timerCancelled, timerFreed, cancelReturned, cbAfterCancel,
    cancelFlag, hcScheduled, hcTicks, ticksAfterCancel, hcEnd,
    \* AutoScalingEngine (monitor thread and decision thread), for one VM
    cpuHigh, sinceScale, scaleCount, pending, decision_queue,
    decision_history, wired,
    \* DecisionExecutor
    execution_queue, sinceAccept, execPc, execCur,
    \* what has been observed of the decisions and of the calls made for them
    elapsed, analysed, emitted, sinceEmit, anLast, forwarded, mgrCalls,
    histAppends, sinceCall, callGap, execLast, failures,
    \* RealTimeMonitor: the metrics kept for one VM, the samples of its ticks,
    \* and a VMMetrics object that update_moving_averages is applied to
    vm_metrics, arrived, metrics, fed,
    \* a decision history that update_decision_history is applied to, as it
    \* was before the last call, and the number of calls
    history, historyBefore, appended,
    \* the threads that reach the decision history: who holds decision_mutex,
    \* where each thread is, and the sizes of the two queues between them
    decision_mutex, at, queued, handed,
    \* the first metric event of a VM as analyze_metrics finds it, and the
    \* decision after each of its steps
    given, proposed,
    \* the CPU limit of a VM as the engine holds it and as the VM holds it, and
    \* the decisions made for the VM one after the other
    engine_current, vm_current, decided,
    \* the domains libvirt knows when the manager is constructed, and the
    \* registry the constructor builds
    libvirt_domains, virtual_machines, constructed,
    \* CGroupManager: the processes it tracks, the processes in cgroup.procs of
    \* its directory, whether the directory exists, how releaseResources ended
    \* and what it found tracked
    managedProcesses, cgroup_procs, cgroup_dir, released, tracked_at_release,
    \* HypervisorConnector: conn (0 for nullptr), the connections libvirt has
    \* open and those of them that still answer, how often each was closed,
    \* the mutex, where each caller is and what the last call did
    handle, libvirt_open, alive, closes, opened_so_far, mutex_, hpc, hlast,
    \* The mutexes of the five components: those each thread holds, in the
    \* order taken, and the lock operations left of the call it is in
    held, todo,
    \* Removal of VMs under the sampler: where each VirtualMachine object is,
    \* whether it runs, the pointer the sampler got from getVM, where the
    \* sampler is with it and what its last use of it met
    vm_record, vm_running, sampling, sampler_pc, sampler_use

poolVars == <<nextId, entries>>
hostVars == <<boundPorts, conn, defined, active>>
mgrVars == <<managerMutex, pc, opName, opExisted, lastRet>>
vmVars == <<status, domain, restartPc, vmLast, cfgVcpus, limitCur, cgroupCpuMax, snapshots>>
scaleVars == <<cfgVcpus, limitCur, cgroupCpuMax>>
poolQ == <<running, ioStopped, queue, workerSt, workerTm, nextTask, executed, stopPc, stopSnap>>
timerVars == <<timerSt, timerCancelled, timerFreed, cancelReturned, cbAfterCancel>>
hcVars == <<cancelFlag, hcScheduled, hcTicks, ticksAfterCancel, hcEnd>>
dispVars == <<poolQ, timerVars, hcVars>>
engineVars == <<cpuHigh, sinceScale, scaleCount, pending, decision_queue, decision_history, wired>>
executorVars == <<execution_queue, sinceAccept, execPc, execCur>>
seenVars == <<elapsed, analysed, emitted, sinceEmit, anLast, forwarded, mgrCalls, histAppends, sinceCall, callGap, execLast, failures>>
monVars == <<vm_metrics, arrived, metrics, fed>>
histVars == <<history, historyBefore, appended>>
lockVars == <<decision_mutex, at, queued, handed>>
ruleVars == <<given, proposed>>
\* The variables of the parts that follow the rules of the engine, by part,
\* and for each part all the variables that are not its own.
loopVars == <<engine_current, vm_current, decided>>
regVars == <<libvirt_domains, virtual_machines, constructed>>
cgVars == <<managedProcesses, cgroup_procs, cgroup_dir, released, tracked_at_release>>
connVars == <<handle, libvirt_open, alive, closes, opened_so_far, mutex_, hpc, hlast>>
ordVars == <<held, todo>>
remVars == <<vm_record, vm_running, sampling, sampler_pc, sampler_use>>
lateVars == <<loopVars, regVars, cgVars, connVars, ordVars, remVars>>
loopRest == <<poolVars, hostVars, mgrVars, vmVars, dispVars, engineVars, executorVars, seenVars, monVars, histVars, lockVars, ruleVars, regVars, cgVars, connVars, ordVars, remVars>>
regRest == <<poolVars, hostVars, mgrVars, vmVars, dispVars, engineVars, executorVars, seenVars, monVars, histVars, lockVars, ruleVars, loopVars, cgVars, connVars, ordVars, remVars>>
cgRest == <<poolVars, hostVars, mgrVars, vmVars, dispVars, engineVars, executorVars, seenVars, monVars, histVars, lockVars, ruleVars, loopVars, regVars, connVars, ordVars, remVars>>
connRest == <<poolVars, hostVars, mgrVars, vmVars, dispVars, engineVars, executorVars, seenVars, monVars, histVars, lockVars, ruleVars, loopVars, regVars, cgVars, ordVars, remVars>>
ordRest == <<poolVars, hostVars, mgrVars, vmVars, dispVars, engineVars, executorVars, seenVars, monVars, histVars, lockVars, ruleVars, loopVars, regVars, cgVars, connVars, remVars>>
remRest == <<poolVars, hostVars, mgrVars, vmVars, dispVars, engineVars, executorVars, seenVars, monVars, histVars, lockVars, ruleVars, loopVars, regVars, cgVars, connVars, ordVars>>
lateBase == <<poolVars, hostVars, mgrVars, vmVars, dispVars, engineVars, executorVars, seenVars, monVars, histVars, lockVars, ruleVars>>
labVars == <<monVars, histVars, lockVars, ruleVars, lateVars>>
autoVars == <<engineVars, executorVars, seenVars, labVars>>
vars == <<poolVars, hostVars, mgrVars, vmVars, dispVars, autoVars>>

NoRet == [op |-> "none", res |-> "none", id |-> 0, name |-> "", existed |-> FALSE]

\* ------------------------------------------------------------------------
\* VirtualMachinePool
\* ------------------------------------------------------------------------

\* The ports of [startPort, endPort] on which a bind succeeds right now.
\* The probe acceptor is closed before the port is returned, so only
\* sockets of other processes make a port unavailable.
Bindable(startPort, endPort, bound) ==
    {p \in startPort..endPort : p \notin bound}

Min(S) == CHOOSE x \in S : \A y \in S : x <= y

\* findAvailablePort: ascending scan, first port whose bind succeeds;
\* thrown stands for the exceptions (invalid range, no available port).
findAvailablePort(startPort, endPort, bound) ==
    IF startPort < 1 \/ endPort > 65535 \/ startPort > endPort
    THEN [thrown |-> TRUE, port |-> NoPort]
    ELSE IF Bindable(startPort, endPort, bound) = {}
    THEN [thrown |-> TRUE, port |-> NoPort]
    ELSE [thrown |-> FALSE, port |-> Min(Bindable(startPort, endPort, bound))]

\* reservedPort as allocate() computes it: any exception becomes -1.
reservedPortOf(bound) ==
    IF findAvailablePort(PortLo, PortHi, bound).thrown THEN NoPort
    ELSE findAvailablePort(PortLo, PortHi, bound).port

\* entries.emplace(id, Entry{uuid, reservedPort})
Emplace(es, id, port) ==
    [i \in (DOMAIN es) \cup {id} |-> IF i \in DOMAIN es THEN es[i] ELSE [port |-> port]]

\* entries.erase(it)
Erase(es, id) == [i \in (DOMAIN es) \ {id} |-> es[i]]

\* VirtualMachinePool::allocate
PoolAllocate ==
    /\ nextId <= MaxId
    /\ nextId' = nextId + 1
    /\ entries' = Emplace(entries, nextId, reservedPortOf(boundPorts))
    /\ UNCHANGED <<hostVars, mgrVars, vmVars, dispVars, autoVars>>

\* VirtualMachinePool::remove
PoolRemove(id) ==
    /\ id \in DOMAIN entries
    /\ entries' = Erase(entries, id)
    /\ UNCHANGED <<nextId, hostVars, mgrVars, vmVars, dispVars, autoVars>>

\* Another process of the host binds or releases a port of the range.
EnvBindPort(p) ==
    /\ p \notin boundPorts
    /\ boundPorts' = boundPorts \cup {p}
    /\ UNCHANGED <<poolVars, conn, defined, active, mgrVars, vmVars, dispVars, autoVars>>

EnvReleasePort(p) ==
    /\ p \in boundPorts
    /\ boundPorts' = boundPorts \ {p}
    /\ UNCHANGED <<poolVars, conn, defined, active, mgrVars, vmVars, dispVars, autoVars>>

\* ------------------------------------------------------------------------
\* VirtualMachineManager (callers are threads; managerMutex is a std::mutex)
\* ------------------------------------------------------------------------

\* HypervisorConnector::connect: success if already open, else virConnectOpen.
Connect(c, openOK) == c \/ openOK

\* VirtualMachineFactory::defineDomain: virDomainDefineXML of a descriptor
\* without uuid fails when the name is already taken.
DefineOK(n, defs, libOK) == libOK /\ n \notin defs

\* What the most recently returned manager call returned.
Result(op, res, id, n) == [op |-> op, res |-> res, id |-> id, name |-> n, existed |-> FALSE]

\* dispatch_deploy, first statement: std::scoped_lock lk(managerMutex)
DeployLock(t, n) ==
    /\ pc[t] = "idle"
    /\ managerMutex = NoThread
    /\ managerMutex' = t
    /\ pc' = [pc EXCEPT ![t] = "deploy"]
    /\ opName' = [opName EXCEPT ![t] = n]
    /\ UNCHANGED <<poolVars, hostVars, opExisted, lastRet, vmVars, dispVars, autoVars>>

\* dispatch_deploy, the body under the lock, up to the return:
\* connect, build XML, define, allocate, start (or undefine on failure).
DeployRun(t) ==
    /\ pc[t] = "deploy"
    /\ managerMutex = t
    /\ \E openOK, valid, libDefOK, startOK, undefOK \in BOOLEAN :
        LET n == opName[t]
            c == Connect(conn, openOK)
            defOK == DefineOK(n, defined, libDefOK)
            id == nextId
            port == reservedPortOf(boundPorts)
        IN  IF ~c THEN
                /\ lastRet' = Result("deploy", "err_connect", 0, "")
                /\ UNCHANGED <<poolVars, hostVars>>
            ELSE IF ~valid THEN
                /\ lastRet' = Result("deploy", "err_config", 0, "")
                /\ conn' = c
                /\ UNCHANGED <<poolVars, boundPorts, defined, active>>
            ELSE IF ~defOK THEN
                /\ lastRet' = Result("deploy", "err_define", 0, "")
                /\ conn' = c
                /\ UNCHANGED <<poolVars, boundPorts, defined, active>>
            ELSE
                /\ nextId <= MaxId
                /\ conn' = c
                /\ nextId' = nextId + 1
                /\ entries' = Emplace(entries, id, port)
                /\ UNCHANGED boundPorts
                /\ IF startOK THEN
                        /\ defined' = defined \cup {n}
                        /\ active' = active \cup {n}
                        /\ lastRet' = Result("deploy", "ok", id, n)
                   ELSE
                        /\ defined' = IF undefOK THEN defined ELSE defined \cup {n}
                        /\ UNCHANGED active
                        /\ lastRet' = Result("deploy", "err_start", id, n)
    /\ managerMutex' = NoThread
    /\ pc' = [pc EXCEPT ![t] = "idle"]
    /\ opName' = [opName EXCEPT ![t] = ""]
    /\ UNCHANGED <<opExisted, vmVars, dispVars, autoVars>>

\* findDomainByName called from outside the manager: lock, connect if
\* needed, virDomainLookupByName, unlock.
FindDomainByName(t, n) ==
    /\ pc[t] = "idle"
    /\ managerMutex = NoThread
    /\ \E openOK \in BOOLEAN :
        /\ conn' = Connect(conn, openOK)
        /\ lastRet' =
                IF ~Connect(conn, openOK) THEN Result("find", "err_connect", 0, "")
                ELSE IF n \notin defined THEN Result("find", "err_not_found", 0, "")
                ELSE Result("find", "ok", 0, "")
    /\ UNCHANGED <<poolVars, boundPorts, defined, active, managerMutex, pc, opName, opExisted, vmVars, dispVars, autoVars>>

\* deleteDomain, first statement: std::lock_guard<std::mutex> lk(managerMutex)
DeleteLock(t, n) ==
    /\ pc[t] = "idle"
    /\ managerMutex = NoThread
    /\ managerMutex' = t
    /\ pc' = [pc EXCEPT ![t] = "delete"]
    /\ opName' = [opName EXCEPT ![t] = n]
    /\ opExisted' = [opExisted EXCEPT ![t] = n \in defined]
    /\ UNCHANGED <<poolVars, hostVars, lastRet, vmVars, dispVars, autoVars>>

\* deleteDomain, second statement: findDomainByName(name), whose first
\* statement locks managerMutex again on the thread that owns it.  Locking
\* a std::mutex twice from one thread is undefined: the call blocks for
\* ever (pthread default mutex) or throws std::system_error
\* (resource_deadlock_would_occur), which unwinds deleteDomain.
DeleteFind(t) ==
    /\ pc[t] = "delete"
    /\ managerMutex = t
    /\ \/ /\ pc' = [pc EXCEPT ![t] = "blocked"]
          /\ UNCHANGED <<managerMutex, opName, opExisted, lastRet>>
       \/ /\ pc' = [pc EXCEPT ![t] = "idle"]
          /\ managerMutex' = NoThread
          /\ opName' = [opName EXCEPT ![t] = ""]
          /\ opExisted' = [opExisted EXCEPT ![t] = FALSE]
          /\ lastRet' = [Result("delete", "system_error", 0, "") EXCEPT !.existed = opExisted[t]]
    /\ UNCHANGED <<poolVars, hostVars, vmVars, dispVars, autoVars>>

\* The hypervisor stops or removes a domain behind the manager's back
\* (guest powers off, operator runs virsh).
EnvDomainStops(n) ==
    /\ n \in active
    /\ active' = active \ {n}
    /\ UNCHANGED <<poolVars, boundPorts, conn, defined, mgrVars, vmVars, dispVars, autoVars>>

EnvUndefine(n) ==
    /\ n \in defined
    /\ n \notin active
    /\ defined' = defined \ {n}
    /\ UNCHANGED <<poolVars, boundPorts, conn, active, mgrVars, vmVars, dispVars, autoVars>>

InitMgr ==
    /\ nextId = 1
    /\ entries = <<>>
    /\ boundPorts = {}
    /\ conn = FALSE
    /\ defined = {}
    /\ active = {}
    /\ managerMutex = NoThread
    /\ pc = [t \in Callers |-> "idle"]
    /\ opName = [t \in Callers |-> ""]
    /\ opExisted = [t \in Callers |-> FALSE]
    /\ lastRet = NoRet

NextMgr ==
    \/ PoolAllocate
    \/ \E id \in 1..MaxId : PoolRemove(id)
    \/ \E p \in PortRange : EnvBindPort(p)
    \/ \E p \in PortRange : EnvReleasePort(p)
    \/ \E t \in Callers, n \in Names : DeployLock(t, n)
    \/ \E t \in Callers : DeployRun(t)
    \/ \E t \in Callers, n \in Names : FindDomainByName(t, n)
    \/ \E t \in Callers, n \in Names : DeleteLock(t, n)
    \/ \E t \in Callers : DeleteFind(t)
    \/ \E n \in Names : EnvDomainStops(n)
    \/ \E n \in Names : EnvUndefine(n)


\* ------------------------------------------------------------------------
\* VirtualMachine: the lifecycle operations, each under status_mutex
\* ------------------------------------------------------------------------

\* The record of the last lifecycle call: the operation, the status it
\* found, the outcome of its libvirt call ("ok", "fail", or "none" when no
\* libvirt call was made) and the value it returned.
\* arg is the vcpus argument of a scaleCPU call, 0 for the other calls.
\* snap is the name given to a snapshot call, "" for the other calls.
Call(op, pre, lib, ret) ==
    [op |-> op, pre |-> pre, lib |-> lib, ret |-> ret, arg |-> 0, snap |-> ""]

SnapCall(op, pre, lib, ret, name) ==
    [Call(op, pre, lib, ret) EXCEPT !.snap = name]

ScaleCall(pre, lib, ret, vcpus) ==
    [Call("scaleCPU", pre, lib, ret) EXCEPT !.arg = vcpus]

\* applyResourceLimits, CPU entry: cpu.max receives current_value * 100000
\* (period 100000); a failed write is logged and swallowed.
applyResourceLimits(cur, old, writeOK) == IF writeOK THEN cur * CpuPeriod ELSE old

vmOther == <<poolVars, hostVars, mgrVars, dispVars, autoVars>>

\* VirtualMachine::create
create(imageExists, libOK) ==
    /\ restartPc = "none"
    /\ IF status # "Stopped" THEN
            /\ vmLast' = Call("create", status, "none", FALSE)
            /\ UNCHANGED <<status, domain>>
       ELSE IF ~imageExists THEN
            /\ status' = "Error"
            /\ vmLast' = Call("create", status, "none", FALSE)
            /\ UNCHANGED domain
       ELSE IF ~libOK THEN
            /\ status' = "Error"
            /\ domain' = FALSE
            /\ vmLast' = Call("create", status, "fail", FALSE)
       ELSE
            /\ status' = "Stopped"
            /\ domain' = TRUE
            /\ vmLast' = Call("create", status, "ok", TRUE)
    /\ UNCHANGED <<restartPc, scaleVars, snapshots, vmOther>>

\* The states from which start() goes on to call virDomainCreate.
StartAllowedUnlessRunning(st) == st # "Running"
StartAllowed(st) == st = "Stopped" \/ st = "Paused"

\* The status start() leaves when virDomainCreate fails.
StartFailStatus(pre) == "Error"

\* VirtualMachine::start (body; also the second half of restart)
StartBody(libOK, writeOK) ==
    IF ~StartAllowed(status) THEN
        /\ vmLast' = Call("start", status, "none", FALSE)
        /\ UNCHANGED <<status, domain, scaleVars>>
    ELSE IF ~domain THEN
        /\ vmLast' = Call("start", status, "none", FALSE)
        /\ UNCHANGED <<status, domain, scaleVars>>
    ELSE IF ~libOK THEN
        /\ status' = StartFailStatus(status)
        /\ vmLast' = Call("start", status, "fail", FALSE)
        /\ UNCHANGED <<domain, scaleVars>>
    ELSE
        /\ status' = "Running"
        /\ vmLast' = Call("start", status, "ok", TRUE)
        /\ cgroupCpuMax' = applyResourceLimits(limitCur, cgroupCpuMax, writeOK)
        /\ UNCHANGED <<domain, cfgVcpus, limitCur>>

start(libOK, writeOK) ==
    /\ restartPc = "none"
    /\ StartBody(libOK, writeOK)
    /\ UNCHANGED <<restartPc, snapshots, vmOther>>

\* VirtualMachine::stop (body; also the first half of restart)
StopBody(libOK) ==
    IF status # "Running" /\ status # "Paused" THEN
        /\ vmLast' = Call("stop", status, "none", TRUE)
        /\ UNCHANGED <<status, domain>>
    ELSE IF ~domain THEN
        /\ vmLast' = Call("stop", status, "none", TRUE)
        /\ UNCHANGED <<status, domain>>
    ELSE IF ~libOK THEN
        /\ vmLast' = Call("stop", status, "fail", FALSE)
        /\ UNCHANGED <<status, domain>>
    ELSE
        /\ status' = "Stopped"
        /\ vmLast' = Call("stop", status, "ok", TRUE)
        /\ UNCHANGED domain

stop(libOK) ==
    /\ restartPc = "none"
    /\ StopBody(libOK)
    /\ UNCHANGED <<restartPc, scaleVars, snapshots, vmOther>>

\* VirtualMachine::shutdown
shutdown(libOK) ==
    /\ restartPc = "none"
    /\ IF status # "Running" THEN
            /\ vmLast' = Call("shutdown", status, "none", FALSE)
            /\ UNCHANGED status
       ELSE IF ~libOK THEN
            /\ vmLast' = Call("shutdown", status, "fail", FALSE)
            /\ UNCHANGED status
       ELSE
            /\ status' = "Stopped"
            /\ vmLast' = Call("shutdown", status, "ok", TRUE)
    /\ UNCHANGED <<domain, restartPc, scaleVars, snapshots, vmOther>>

\* VirtualMachine::pause
pause(libOK) ==
    /\ restartPc = "none"
    /\ IF status # "Running" THEN
            /\ vmLast' = Call("pause", status, "none", FALSE)
            /\ UNCHANGED status
       ELSE IF ~libOK THEN
            /\ vmLast' = Call("pause", status, "fail", FALSE)
            /\ UNCHANGED status
       ELSE
            /\ status' = "Paused"
            /\ vmLast' = Call("pause", status, "ok", TRUE)
    /\ UNCHANGED <<domain, restartPc, scaleVars, snapshots, vmOther>>

\* VirtualMachine::resume
resume(libOK) ==
    /\ restartPc = "none"
    /\ IF status # "Paused" THEN
            /\ vmLast' = Call("resume", status, "none", FALSE)
            /\ UNCHANGED status
       ELSE IF ~libOK THEN
            /\ vmLast' = Call("resume", status, "fail", FALSE)
            /\ UNCHANGED status
       ELSE
            /\ status' = "Running"
            /\ vmLast' = Call("resume", status, "ok", TRUE)
    /\ UNCHANGED <<domain, restartPc, scaleVars, snapshots, vmOther>>

\* VirtualMachine::restart: stop(), then sleep 2 s outside the lock ...
restartStop(libOK) ==
    /\ restartPc = "none"
    /\ StopBody(libOK)
    /\ restartPc' = IF vmLast'.ret THEN "sleeping" ELSE "none"
    /\ UNCHANGED <<scaleVars, snapshots, vmOther>>

\* ... then start()
restartStart(libOK, writeOK) ==
    /\ restartPc = "sleeping"
    /\ StartBody(libOK, writeOK)
    /\ restartPc' = "none"
    /\ UNCHANGED <<snapshots, vmOther>>

\* The status migrate() assigns on its two failure paths (virConnectOpen
\* or virDomainMigrate failed), after it had set Migrating.
MigrateFailStatusKept == "Migrating"

MigrateFailStatus == "Running"

\* VirtualMachine::migrate: status_mutex is held for the whole call, so
\* Migrating is visible only inside the call.
migrate(destOK, libOK) ==
    /\ restartPc = "none"
    /\ IF status # "Running" THEN
            /\ vmLast' = Call("migrate", status, "none", FALSE)
            /\ UNCHANGED <<status, domain>>
       ELSE IF ~destOK \/ ~libOK THEN
            /\ status' = MigrateFailStatus
            /\ vmLast' = Call("migrate", status, "fail", FALSE)
            /\ UNCHANGED domain
       ELSE
            /\ status' = "Running"
            /\ domain' = TRUE
            /\ vmLast' = Call("migrate", status, "ok", TRUE)
    /\ UNCHANGED <<restartPc, scaleVars, snapshots, vmOther>>

\* The range check of scaleCPU against the CPU entry of resource_limits.
OutOfRangeLoose(vcpus) == vcpus < CpuMin \/ vcpus > CpuMax + 1

OutOfRange(vcpus) == vcpus < CpuMin \/ vcpus > CpuMax

\* VirtualMachine::scaleCPU
scaleCPU(vcpus, libOK, writeOK) ==
    /\ restartPc = "none"
    /\ IF status # "Running" /\ status # "Paused" THEN
            /\ vmLast' = ScaleCall(status, "none", FALSE, vcpus)
            /\ UNCHANGED <<scaleVars, snapshots, vmOther>>
       ELSE IF OutOfRange(vcpus) THEN
            /\ vmLast' = ScaleCall(status, "none", FALSE, vcpus)
            /\ UNCHANGED <<scaleVars, snapshots, vmOther>>
       ELSE IF ~libOK THEN
            /\ cfgVcpus' = vcpus
            /\ vmLast' = ScaleCall(status, "fail", FALSE, vcpus)
            /\ UNCHANGED <<limitCur, cgroupCpuMax>>
       ELSE
            /\ cfgVcpus' = vcpus
            /\ limitCur' = vcpus
            /\ cgroupCpuMax' = applyResourceLimits(vcpus, cgroupCpuMax, writeOK)
            /\ vmLast' = ScaleCall(status, "ok", TRUE, vcpus)
    /\ UNCHANGED <<status, domain, restartPc, snapshots, vmOther>>

\* The names of the snapshots of the VM (VMSnapshot::name).
SnapNames == {"s1", "s2"}

\* VirtualMachine::createSnapshot. libvirt refuses a name it already has.
createSnapshot(name, libOK) ==
    /\ restartPc = "none"
    /\ IF status # "Running" /\ status # "Paused" THEN
            /\ vmLast' = SnapCall("createSnapshot", status, "none", FALSE, name)
            /\ UNCHANGED snapshots
       ELSE IF ~libOK \/ (\E s \in snapshots : s.name = name) THEN
            /\ vmLast' = SnapCall("createSnapshot", status, "fail", FALSE, name)
            /\ UNCHANGED snapshots
       ELSE
            /\ snapshots' = snapshots \cup {[name |-> name, vm_state |-> status]}
            /\ vmLast' = SnapCall("createSnapshot", status, "ok", TRUE, name)
    /\ UNCHANGED <<status, domain, restartPc, scaleVars, vmOther>>

\* VirtualMachine::revertToSnapshot: virDomainSnapshotLookupByName finds
\* the snapshots that were created; the status of the object is not
\* assigned.
revertToSnapshot(name, libOK) ==
    /\ restartPc = "none"
    /\ domain
    /\ IF ~(\E s \in snapshots : s.name = name) THEN
            vmLast' = SnapCall("revertToSnapshot", status, "none", FALSE, name)
       ELSE IF ~libOK THEN
            vmLast' = SnapCall("revertToSnapshot", status, "fail", FALSE, name)
       ELSE
            vmLast' = SnapCall("revertToSnapshot", status, "ok", TRUE, name)
    /\ UNCHANGED <<status, domain, restartPc, scaleVars, snapshots, vmOther>>

\* The VirtualMachine part at rest, for the specifications of other parts.
IdleVM ==
    /\ status = "Stopped"
    /\ domain = FALSE
    /\ restartPc = "none"
    /\ vmLast = Call("none", "Stopped", "none", FALSE)
    /\ limitCur = CpuMin
    /\ cfgVcpus = CpuMin
    /\ cgroupCpuMax = CpuMin * CpuPeriod
    /\ snapshots = {}

InitVM ==
    /\ status = "Stopped"
    /\ domain = FALSE
    /\ restartPc = "none"
    /\ vmLast = Call("none", "Stopped", "none", FALSE)
    /\ limitCur \in CpuMin..CpuMax
    /\ cfgVcpus = limitCur
    /\ cgroupCpuMax \in {limitCur * CpuPeriod, 0}
    /\ snapshots = {}

\* VirtualMachineManager::check_vms_health, for a VM it finds in Error:
\* vm->stop(), then vm->start(), each as the VM's own function does it.
check_vms_health(stopOK, startOK, writeOK) ==
    /\ restartPc = "none"
    /\ status = "Error"
    /\ LET stopped == IF (status = "Running" \/ status = "Paused") /\ domain /\ stopOK
                      THEN "Stopped" ELSE status
           tried == StartAllowed(stopped) /\ domain
           started == IF ~tried THEN stopped
                      ELSE IF startOK THEN "Running" ELSE StartFailStatus(stopped)
       IN /\ status' = started
          /\ vmLast' = Call("check_vms_health", status,
                            IF ~tried THEN "none" ELSE IF startOK THEN "ok" ELSE "fail",
                            started = "Running")
          /\ cgroupCpuMax' = IF tried /\ startOK
                             THEN applyResourceLimits(limitCur, cgroupCpuMax, writeOK)
                             ELSE cgroupCpuMax
    /\ UNCHANGED <<domain, restartPc, cfgVcpus, limitCur, snapshots, vmOther>>

NextVM ==
    \/ \E imageExists, libOK \in BOOLEAN : create(imageExists, libOK)
    \/ \E libOK, writeOK \in BOOLEAN : start(libOK, writeOK)
    \/ \E libOK \in BOOLEAN : stop(libOK)
    \/ \E libOK \in BOOLEAN : shutdown(libOK)
    \/ \E libOK \in BOOLEAN : pause(libOK)
    \/ \E libOK \in BOOLEAN : resume(libOK)
    \/ \E libOK \in BOOLEAN : restartStop(libOK)
    \/ \E libOK, writeOK \in BOOLEAN : restartStart(libOK, writeOK)
    \/ \E destOK, libOK \in BOOLEAN : migrate(destOK, libOK)
    \/ \E v \in (CpuMin - 1)..(CpuMax + 1), libOK, writeOK \in BOOLEAN : scaleCPU(v, libOK, writeOK)
    \/ \E name \in SnapNames, libOK \in BOOLEAN : createSnapshot(name, libOK)
    \/ \E name \in SnapNames, libOK \in BOOLEAN : revertToSnapshot(name, libOK)
    \/ \E stopOK, startOK, writeOK \in BOOLEAN : check_vms_health(stopOK, startOK, writeOK)

\* ------------------------------------------------------------------------
\* CONCURRENCY::EventDispatcher and Timer
\* ------------------------------------------------------------------------

Task(id, throws) == [kind |-> "task", id |-> id, ec |-> "ok", throws |-> throws]
HcTask == [kind |-> "hc", id |-> 0, ec |-> "ok", throws |-> FALSE]
TimerHandler(k, ec) == [kind |-> "timer", id |-> k, ec |-> ec, throws |-> FALSE]

otherVars == <<poolVars, boundPorts, defined, active, mgrVars, vmVars, autoVars>>

\* EventDispatcher::dispatch: asio::post of the callable as it is.
dispatch(throws) ==
    /\ nextTask <= MaxTasks
    /\ queue' = Append(queue, Task(nextTask, throws))
    /\ nextTask' = nextTask + 1
    /\ UNCHANGED <<running, ioStopped, workerSt, workerTm, executed, stopPc, stopSnap,
                   timerVars, hcVars, otherVars, conn>>

\* What becomes of a worker thread whose handler threw: the exception
\* leaves io_ctx.run(), the lambda of run_threads catches it and returns.
AfterTask(throws) == IF throws THEN "exited" ELSE "idle"

\* The handler of Timer::Impl, first statement:
\* if (ec || self->cancelled.load()) return;
\* TRUE when the handler goes on to the callback.  Reading the flag of a
\* freed Impl is undefined: ub is the value the read then yields.
TimerPasses(ec, freed, isCancelled, ub) ==
    IF ec # "ok" THEN FALSE
    ELSE IF freed THEN ub
    ELSE ~isCancelled

\* A worker inside io_ctx.run() takes the next ready handler.
WorkerTake(w) ==
    /\ workerSt[w] = "idle"
    /\ ~ioStopped
    /\ queue # <<>>
    /\ queue' = Tail(queue)
    /\ LET h == Head(queue) IN
        \/ /\ h.kind = "task"
           /\ executed' = executed \cup {h.id}
           /\ workerSt' = [workerSt EXCEPT ![w] = AfterTask(h.throws)]
           /\ UNCHANGED <<workerTm, timerSt>>
        \/ /\ h.kind = "hc"
           /\ workerSt' = [workerSt EXCEPT ![w] = "hc_check1"]
           /\ UNCHANGED <<workerTm, executed, timerSt>>
        \/ /\ h.kind = "timer"
           /\ \E ub \in BOOLEAN :
                IF TimerPasses(h.ec, timerFreed[h.id], timerCancelled[h.id], ub)
                THEN /\ workerSt' = [workerSt EXCEPT ![w] =
                                        IF h.id = HcTimer THEN "hc_check1" ELSE "timer_cb"]
                     /\ workerTm' = [workerTm EXCEPT ![w] = h.id]
                     /\ timerSt' = [timerSt EXCEPT ![h.id] = "checked"]
                ELSE /\ timerSt' = [timerSt EXCEPT ![h.id] = "done"]
                     /\ UNCHANGED <<workerSt, workerTm>>
           /\ UNCHANGED executed
    /\ UNCHANGED <<running, ioStopped, nextTask, stopPc, stopSnap,
                   timerCancelled, timerFreed, cancelReturned, cbAfterCancel,
                   hcVars, otherVars, conn>>

\* The handler of Timer::Impl, second statement: if (self->cb) self->cb();
TimerCallback(w) ==
    /\ workerSt[w] = "timer_cb"
    /\ cbAfterCancel' = [cbAfterCancel EXCEPT ![workerTm[w]] = cancelReturned[workerTm[w]]]
    /\ timerSt' = [timerSt EXCEPT ![workerTm[w]] = "done"]
    /\ workerSt' = [workerSt EXCEPT ![w] = "idle"]
    /\ workerTm' = [workerTm EXCEPT ![w] = HcTimer]
    /\ UNCHANGED <<running, ioStopped, queue, nextTask, executed, stopPc, stopSnap,
                   timerCancelled, timerFreed, cancelReturned, hcVars, otherVars, conn>>

\* EventDispatcher::dispatch_delayed by a client that keeps the handle.
dispatch_delayed(k) ==
    /\ timerSt[k] = "none"
    /\ timerSt' = [timerSt EXCEPT ![k] = "armed"]
    /\ UNCHANGED <<poolQ, timerCancelled, timerFreed, cancelReturned, cbAfterCancel,
                   hcVars, otherVars, conn>>

\* The steady_timer expires: its handler becomes ready with no error.
TimerExpire(k) ==
    /\ timerSt[k] = "armed"
    /\ ~ioStopped
    /\ timerSt' = [timerSt EXCEPT ![k] = "ready"]
    /\ queue' = Append(queue, TimerHandler(k, "ok"))
    /\ UNCHANGED <<running, ioStopped, workerSt, workerTm, nextTask, executed, stopPc, stopSnap,
                   timerCancelled, timerFreed, cancelReturned, cbAfterCancel,
                   hcVars, otherVars, conn>>

\* The queue after timer.cancel(): a wait still pending completes with
\* operation_aborted; a handler already ready is not touched.
CancelWait(q, st, k) == IF st = "armed" THEN Append(q, TimerHandler(k, "aborted")) ELSE q

AfterCancel(st) == IF st = "armed" THEN "ready" ELSE st

\* Timer::cancel through the handle: cancelled.store(true); timer.cancel(ec)
TimerCancel(k) ==
    /\ timerSt[k] # "none"
    /\ ~cancelReturned[k]
    /\ timerCancelled' = [timerCancelled EXCEPT ![k] = TRUE]
    /\ queue' = CancelWait(queue, timerSt[k], k)
    /\ timerSt' = [timerSt EXCEPT ![k] = AfterCancel(@)]
    /\ cancelReturned' = [cancelReturned EXCEPT ![k] = TRUE]
    /\ UNCHANGED <<running, ioStopped, workerSt, workerTm, nextTask, executed, stopPc, stopSnap,
                   timerFreed, cbAfterCancel, hcVars, otherVars, conn>>

\* Impl::stop_threads, up to the joins: running.exchange(false),
\* work_guard.reset(), io_ctx.stop().  A call on a stopped dispatcher returns.
StopCall ==
    /\ stopPc # "joining"
    /\ IF running
       THEN /\ running' = FALSE
            /\ ioStopped' = TRUE
            /\ stopPc' = "joining"
            /\ stopSnap' = 1..(nextTask - 1)
       ELSE UNCHANGED <<running, ioStopped, stopPc, stopSnap>>
    /\ UNCHANGED <<queue, workerSt, workerTm, nextTask, executed, timerVars, hcVars, otherVars, conn>>

\* io_ctx.run() returns on a worker once the context is stopped.
WorkerExit(w) ==
    /\ workerSt[w] = "idle"
    /\ ioStopped
    /\ workerSt' = [workerSt EXCEPT ![w] = "exited"]
    /\ UNCHANGED <<running, ioStopped, queue, workerTm, nextTask, executed, stopPc, stopSnap,
                   timerVars, hcVars, otherVars, conn>>

\* Impl::stop_threads, the joins, threads.clear() and io_ctx.reset().
StopJoin ==
    /\ stopPc = "joining"
    /\ \A w \in Workers : workerSt[w] = "exited"
    /\ stopPc' = "returned"
    /\ ioStopped' = FALSE
    /\ UNCHANGED <<running, queue, workerSt, workerTm, nextTask, executed, stopSnap,
                   timerVars, hcVars, otherVars, conn>>

\* ------------------------------------------------------------------------
\* VirtualMachineManager::schedule_health_check
\* ------------------------------------------------------------------------

\* a load that does not see the store of the caller
LoadStale(flag) == FALSE

\* cancelFlag->load()
Load(flag) == flag

\* schedule_health_check: the first check is posted with dispatch.
schedule_health_check ==
    /\ ~hcScheduled
    /\ hcScheduled' = TRUE
    /\ queue' = Append(queue, HcTask)
    /\ UNCHANGED <<running, ioStopped, workerSt, workerTm, nextTask, executed, stopPc, stopSnap,
                   timerVars, cancelFlag, hcTicks, ticksAfterCancel, hcEnd, otherVars, conn>>

\* The caller stores true into the flag it was given.
SetCancelFlag ==
    /\ hcScheduled
    /\ ~cancelFlag
    /\ cancelFlag' = TRUE
    /\ UNCHANGED <<poolQ, timerVars, hcScheduled, hcTicks, ticksAfterCancel, hcEnd, otherVars, conn>>

\* task, first statement: if (cancelFlag->load()) return;
HcCheck1(w) ==
    /\ workerSt[w] = "hc_check1"
    /\ IF Load(cancelFlag)
       THEN /\ workerSt' = [workerSt EXCEPT ![w] = "idle"]
            /\ hcEnd' = "cancel_seen"
       ELSE /\ workerSt' = [workerSt EXCEPT ![w] = "hc_query"]
            /\ UNCHANGED hcEnd
    /\ UNCHANGED <<running, ioStopped, queue, workerTm, nextTask, executed, stopPc, stopSnap,
                   timerVars, cancelFlag, hcScheduled, hcTicks, ticksAfterCancel, otherVars, conn>>

\* task, the check itself: findDomainByName (under managerMutex) and the log.
HcQuery(w) ==
    /\ workerSt[w] = "hc_query"
    /\ managerMutex = NoThread
    /\ hcTicks < MaxTicks
    /\ \E openOK \in BOOLEAN : conn' = Connect(conn, openOK)
    /\ hcTicks' = hcTicks + 1
    /\ ticksAfterCancel' = IF cancelFlag THEN ticksAfterCancel + 1 ELSE ticksAfterCancel
    /\ workerSt' = [workerSt EXCEPT ![w] = "hc_check2"]
    /\ UNCHANGED <<running, ioStopped, queue, workerTm, nextTask, executed, stopPc, stopSnap,
                   timerVars, cancelFlag, hcScheduled, hcEnd, otherVars>>

\* task, scheduling of the next tick: if (!cancelFlag->load())
\* dispatcher->dispatch_delayed(interval, ...): the Timer is armed.  (The
\* step waits for the handle of the previous tick to be dropped, so that
\* one Timer record is enough; the two steps commute.)
HcCheck2(w) ==
    /\ workerSt[w] = "hc_check2"
    /\ \A v \in Workers : workerSt[v] # "hc_drop"
    /\ IF Load(cancelFlag)
       THEN /\ workerSt' = [workerSt EXCEPT ![w] = "idle"]
            /\ hcEnd' = "cancel_seen"
            /\ UNCHANGED <<timerSt, timerCancelled, timerFreed>>
       ELSE /\ workerSt' = [workerSt EXCEPT ![w] = "hc_drop"]
            /\ timerSt' = [timerSt EXCEPT ![HcTimer] = "armed"]
            /\ timerCancelled' = [timerCancelled EXCEPT ![HcTimer] = FALSE]
            /\ timerFreed' = [timerFreed EXCEPT ![HcTimer] = FALSE]
            /\ UNCHANGED hcEnd
    /\ UNCHANGED <<running, ioStopped, queue, workerTm, nextTask, executed, stopPc, stopSnap,
                   cancelReturned, cbAfterCancel,
                   cancelFlag, hcScheduled, hcTicks, ticksAfterCancel, otherVars, conn>>

\* task, end of the same statement: the shared_ptr<Timer> returned by
\* dispatch_delayed is a temporary; ~Timer cancels and the Impl is freed.
HcDrop(w) ==
    /\ workerSt[w] = "hc_drop"
    /\ timerCancelled' = [timerCancelled EXCEPT ![HcTimer] = TRUE]
    /\ timerFreed' = [timerFreed EXCEPT ![HcTimer] = TRUE]
    /\ queue' = CancelWait(queue, timerSt[HcTimer], HcTimer)
    /\ timerSt' = [timerSt EXCEPT ![HcTimer] = AfterCancel(@)]
    /\ workerSt' = [workerSt EXCEPT ![w] = "idle"]
    /\ hcEnd' = "rescheduled"
    /\ UNCHANGED <<running, ioStopped, workerTm, nextTask, executed, stopPc, stopSnap,
                   cancelReturned, cbAfterCancel,
                   cancelFlag, hcScheduled, hcTicks, ticksAfterCancel, otherVars, conn>>

IdleDisp ==
    /\ running = TRUE
    /\ ioStopped = FALSE
    /\ queue = <<>>
    /\ workerSt = [w \in Workers |-> "idle"]
    /\ workerTm = [w \in Workers |-> HcTimer]
    /\ nextTask = 1
    /\ executed = {}
    /\ stopPc = "none"
    /\ stopSnap = {}
    /\ timerSt = [k \in Timers |-> "none"]
    /\ timerCancelled = [k \in Timers |-> FALSE]
    /\ timerFreed = [k \in Timers |-> FALSE]
    /\ cancelReturned = [k \in Timers |-> FALSE]
    /\ cbAfterCancel = [k \in Timers |-> FALSE]
    /\ cancelFlag = FALSE
    /\ hcScheduled = FALSE
    /\ hcTicks = 0
    /\ ticksAfterCancel = 0
    /\ hcEnd = "none"

\* EventDispatcher(threads): run_threads() in the constructor.
InitDisp == IdleDisp

\* The dispatcher with its clients' tasks and timers.
NextDisp ==
    \/ \E throws \in BOOLEAN : dispatch(throws)
    \/ \E w \in Workers : WorkerTake(w)
    \/ \E w \in Workers : TimerCallback(w)
    \/ \E k \in UserTimers : dispatch_delayed(k)
    \/ \E k \in UserTimers : TimerExpire(k)
    \/ \E k \in UserTimers : TimerCancel(k)
    \/ StopCall
    \/ \E w \in Workers : WorkerExit(w)
    \/ StopJoin

\* The dispatcher with the health check of the manager and other tasks.
NextHc ==
    \/ \E throws \in BOOLEAN : dispatch(throws)
    \/ \E w \in Workers : WorkerTake(w)
    \/ TimerExpire(HcTimer)
    \/ StopCall
    \/ \E w \in Workers : WorkerExit(w)
    \/ StopJoin
    \/ schedule_health_check
    \/ SetCancelFlag
    \/ \E w \in Workers : HcCheck1(w)
    \/ \E w \in Workers : HcQuery(w)
    \/ \E w \in Workers : HcCheck2(w)
    \/ \E w \in Workers : HcDrop(w)

\* ------------------------------------------------------------------------
\* AutoScalingEngine and DecisionExecutor, as they serve one VM.
\* Time is counted in ticks of 30 s. A time point is kept as its age: the
\* number of ticks since it was taken, capped at the span the code
\* compares it with; Never stands for a key that is not in the map.
\* ------------------------------------------------------------------------
MinGap == 4
DailyLimit == 50
Day == 2880
Cooldown == 1
HistoryCap == 1000
HistoryTrim == 100
Never == -1

Tracked == 1..MaxDecisions
ExecOutcomes == {"ok", "refused", "throws"}

\* A ScalingDecision; id tells the first MaxDecisions decisions apart
\* (0 for the later ones).
Decision(action, id) == [action |-> action, id |-> id]
NoDecision == Decision("Maintain", 0)
IdOf(n) == IF n <= MaxDecisions THEN n ELSE 0

Older(age, cap) ==
    IF age = Never THEN Never ELSE IF age < cap THEN age + 1 ELSE cap

Bump(f, id) == IF id \in DOMAIN f THEN [f EXCEPT ![id] = @ + 1] ELSE f

Mark(f, id) == IF id \in DOMAIN f THEN [f EXCEPT ![id] = TRUE] ELSE f

autoOther == <<poolVars, hostVars, mgrVars, vmVars, dispVars, labVars>>

\* chrono::system_clock::now() moves on by one tick. With prompt, the
\* monitoring loop, which analyses the metrics once per second, has run
\* at least once during the tick that ends.
Tick(horizon, prompt) ==
    /\ elapsed < horizon
    /\ prompt => analysed
    /\ elapsed' = elapsed + 1
    /\ analysed' = FALSE
    /\ sinceScale' = Older(sinceScale, MinGap)
    /\ sinceEmit' = Older(sinceEmit, MinGap)
    /\ sinceAccept' = Older(sinceAccept, Cooldown)
    /\ sinceCall' = Older(sinceCall, Cooldown)
    /\ UNCHANGED <<cpuHigh, scaleCount, pending, decision_queue, decision_history, wired,
                   execution_queue, execPc, execCur, emitted, anLast, forwarded,
                   mgrCalls, histAppends, callGap, execLast, failures, autoOther>>

\* RealTimeMonitor::update_vm_metrics: the load of the VM changes.
update_vm_metrics ==
    /\ cpuHigh' = ~cpuHigh
    /\ UNCHANGED <<sinceScale, scaleCount, pending, decision_queue, decision_history, wired,
                   executorVars, seenVars, autoOther>>

\* check_rate_limit, first test: the last pass for this VM was less than
\* 2 min ago.
RateLimitedShort(age) == age # Never /\ age < MinGap - 1

RateLimited(age) == age # Never /\ age < MinGap

\* check_rate_limit, second test: scale_count_24h has reached 50.
OverDailyLimit(cnt) == cnt # Never /\ cnt >= DailyLimit

\* TRUE when check_rate_limit returns true.
check_rate_limit == ~RateLimited(sinceScale) /\ ~OverDailyLimit(scaleCount)

\* analyze_cpu_usage .. analyze_usage_patterns: the action proposed for
\* the metrics at hand (ScaleUp stands for ScaleUp and ScaleDown, which
\* take the same path from here on).
analyze_cpu_usage == IF cpuHigh THEN "ScaleUp" ELSE "Maintain"

\* decision_queue.push(decision), skipped for Maintain.
Pushed(action, n) ==
    IF action = "Maintain" THEN decision_queue
    ELSE Append(decision_queue, Decision(action, IdOf(n)))

\* analyze_metrics on the monitor thread, up to the insertion of a new
\* key by scale_count_24h[vm_name]; with the key present the increment and
\* the push follow in the same step. The maps of check_rate_limit are
\* accessed without a lock.
analyze_metrics(maxEmitted) ==
    /\ pending = "none"
    /\ emitted < maxEmitted
    /\ Len(decision_queue) < MaxQueue
    /\ LET pass == check_rate_limit
           action == IF pass THEN analyze_cpu_usage ELSE "Maintain"
       IN /\ anLast' = [proposal |-> analyze_cpu_usage, gap |-> sinceEmit, action |-> action]
          /\ IF action = "Maintain"
             THEN UNCHANGED <<emitted, sinceEmit>>
             ELSE emitted' = emitted + 1 /\ sinceEmit' = 0
          /\ IF ~pass
             THEN UNCHANGED <<sinceScale, scaleCount, pending, decision_queue>>
             ELSE /\ sinceScale' = 0
                  /\ IF scaleCount = Never
                     THEN /\ scaleCount' = 0
                          /\ pending' = action
                          /\ UNCHANGED decision_queue
                     ELSE /\ scaleCount' = scaleCount + 1
                          /\ pending' = "none"
                          /\ decision_queue' = Pushed(action, emitted + 1)
    /\ analysed' = TRUE
    /\ UNCHANGED <<cpuHigh, decision_history, wired, executorVars, elapsed, forwarded,
                   mgrCalls, histAppends, sinceCall, callGap, execLast, failures, autoOther>>

\* ... the increment of the element that was just inserted, and the push.
\* If cleanup_old_decisions erased the element in between, the increment
\* writes to the freed node and the key stays absent.
count_increment ==
    /\ pending # "none"
    /\ scaleCount' = IF scaleCount = Never THEN Never ELSE scaleCount + 1
    /\ decision_queue' = Pushed(pending, emitted)
    /\ pending' = "none"
    /\ UNCHANGED <<cpuHigh, sinceScale, decision_history, wired, executorVars, seenVars, autoOther>>

\* cleanup_old_decisions on the decision thread, under decision_mutex: it
\* erases the counters that are 0. No entry of the history is older than
\* 24 h while elapsed < Day, so the history stays.
cleanup_old_decisions ==
    /\ scaleCount' = IF scaleCount = 0 THEN Never ELSE scaleCount
    /\ UNCHANGED <<cpuHigh, sinceScale, pending, decision_queue, decision_history, wired,
                   executorVars, seenVars, autoOther>>

\* AutoScalingEngine::register_decision_callback, as setup_subscriptions
\* calls it: decisions are handed to DecisionExecutor::schedule_execution.
register_decision_callback ==
    /\ ~wired
    /\ wired' = TRUE
    /\ UNCHANGED <<cpuHigh, sinceScale, scaleCount, pending, decision_queue, decision_history,
                   executorVars, seenVars, autoOther>>

\* DecisionExecutor::schedule_execution: the queue and last_execution_time
\* (as an age) it leaves.
schedule_execution(eq, acc, d) ==
    IF acc # Never /\ acc < Cooldown
    THEN [eq |-> eq, acc |-> acc]
    ELSE [eq |-> Append(eq, d), acc |-> 0]

\* erase(begin(), begin() + 100)
TrimNewest(a) == SubSeq(a, 1, Len(a) - HistoryTrim)
TrimOldest(a) == SubSeq(a, HistoryTrim + 1, Len(a))

\* update_decision_history
update_decision_history(h, d) ==
    LET a == Append(h, d.id)
    IN IF Len(a) > HistoryCap THEN TrimOldest(a) ELSE a

\* What the handling of decisions reads and writes.
Pipe ==
    [eq |-> execution_queue, acc |-> sinceAccept, fwd |-> forwarded,
     calls |-> mgrCalls, apps |-> histAppends, hist |-> decision_history,
     sc |-> sinceCall, gap |-> callGap]

SetPipe(st) ==
    /\ execution_queue' = st.eq
    /\ sinceAccept' = st.acc
    /\ forwarded' = st.fwd
    /\ mgrCalls' = st.calls
    /\ histAppends' = st.apps
    /\ decision_history' = st.hist
    /\ sinceCall' = st.sc
    /\ callGap' = st.gap

\* apply_scaling_decision for ScaleUp or ScaleDown: one call into the VM
\* manager (scale_resource, its result ignored), then the history.
apply_scaling_decision(st, d) ==
    [st EXCEPT !.calls = Bump(@, d.id),
               !.gap = st.sc,
               !.sc = 0,
               !.hist = update_decision_history(@, d),
               !.apps = Bump(@, d.id)]

\* One round of the loop of process_decisions: the callbacks, then
\* apply_scaling_decision by the engine itself.
ProcessOne(st, d) ==
    LET r == schedule_execution(st.eq, st.acc, d)
        s1 == IF wired
              THEN [st EXCEPT !.eq = r.eq, !.acc = r.acc, !.fwd = Mark(@, d.id)]
              ELSE st
    IN apply_scaling_decision(s1, d)

RECURSIVE ProcessAll(_, _)
ProcessAll(st, q) ==
    IF q = <<>> THEN st ELSE ProcessAll(ProcessOne(st, Head(q)), Tail(q))

\* AutoScalingEngine::process_decisions, the whole loop under
\* decision_mutex.
process_decisions ==
    /\ decision_queue # <<>>
    /\ SetPipe(ProcessAll(Pipe, decision_queue))
    /\ decision_queue' = <<>>
    /\ UNCHANGED <<cpuHigh, sinceScale, scaleCount, pending, wired, execPc, execCur,
                   elapsed, analysed, emitted, sinceEmit, anLast, execLast, failures, autoOther>>

\* DecisionExecutor::execution_loop: take the front of the queue.
execution_loop ==
    /\ execPc = "idle"
    /\ execution_queue # <<>>
    /\ execCur' = Head(execution_queue)
    /\ execution_queue' = Tail(execution_queue)
    /\ execPc' = "executing"
    /\ UNCHANGED <<engineVars, sinceAccept, seenVars, autoOther>>

\* DecisionExecutor::execute_decision for ScaleUp or ScaleDown:
\* apply_scaling_decision, which returns nothing and keeps its exceptions
\* to itself. "refused": the VM manager returned false; "throws": the
\* try block threw (std::println), so the catch branch goes to sleep.
execute_decision(outcome) ==
    /\ execPc = "executing"
    /\ SetPipe(apply_scaling_decision(Pipe, execCur))
    /\ failures' = IF outcome = "ok" THEN failures ELSE Bump(failures, execCur.id)
    /\ execLast' = [id |-> execCur.id, outcome |-> outcome]
    /\ IF outcome = "throws"
       THEN execPc' = "sleeping" /\ UNCHANGED execCur
       ELSE execPc' = "idle" /\ execCur' = NoDecision
    /\ UNCHANGED <<cpuHigh, sinceScale, scaleCount, pending, decision_queue, wired,
                   elapsed, analysed, emitted, sinceEmit, anLast, autoOther>>

\* ... the catch branch after sleep_for(5s), which is shorter than a
\* tick: schedule_execution(decision).
retry_after_sleep ==
    /\ execPc = "sleeping"
    /\ LET r == schedule_execution(execution_queue, sinceAccept, execCur)
       IN execution_queue' = r.eq /\ sinceAccept' = r.acc
    /\ execPc' = "idle"
    /\ execCur' = NoDecision
    /\ UNCHANGED <<engineVars, seenVars, autoOther>>

\* The engine and the executor at rest, for the specifications of other
\* parts.
IdleAuto ==
    /\ cpuHigh = FALSE
    /\ sinceScale = Never
    /\ scaleCount = Never
    /\ pending = "none"
    /\ decision_queue = <<>>
    /\ decision_history = <<>>
    /\ wired = FALSE
    /\ execution_queue = <<>>
    /\ sinceAccept = Never
    /\ execPc = "idle"
    /\ execCur = NoDecision
    /\ elapsed = 0
    /\ analysed = FALSE
    /\ emitted = 0
    /\ sinceEmit = Never
    /\ anLast = [proposal |-> "Maintain", gap |-> Never, action |-> "Maintain"]
    /\ forwarded = [id \in Tracked |-> FALSE]
    /\ mgrCalls = [id \in Tracked |-> 0]
    /\ histAppends = [id \in Tracked |-> 0]
    /\ sinceCall = Never
    /\ callGap = Never
    /\ execLast = [id |-> 0, outcome |-> "ok"]
    /\ failures = [id \in Tracked |-> 0]

\* The engine and the executor started, no decision made yet, the VM under
\* high or low load.
InitAuto ==
    /\ cpuHigh \in BOOLEAN
    /\ sinceScale = Never
    /\ scaleCount = Never
    /\ pending = "none"
    /\ decision_queue = <<>>
    /\ decision_history = <<>>
    /\ wired = FALSE
    /\ execution_queue = <<>>
    /\ sinceAccept = Never
    /\ execPc = "idle"
    /\ execCur = NoDecision
    /\ elapsed = 0
    /\ analysed = FALSE
    /\ emitted = 0
    /\ sinceEmit = Never
    /\ anLast = [proposal |-> "Maintain", gap |-> Never, action |-> "Maintain"]
    /\ forwarded = [id \in Tracked |-> FALSE]
    /\ mgrCalls = [id \in Tracked |-> 0]
    /\ histAppends = [id \in Tracked |-> 0]
    /\ sinceCall = Never
    /\ callGap = Never
    /\ execLast = [id |-> 0, outcome |-> "ok"]
    /\ failures = [id \in Tracked |-> 0]

\* The engine alone, under a load that does not change, over a long time.
NextEngine ==
    \/ Tick(MaxElapsed, TRUE)
    \/ analyze_metrics(DailyLimit + 1)
    \/ count_increment
    \/ cleanup_old_decisions
    \/ process_decisions

\* The engine and the executor together, for the first decisions.
NextExec ==
    \/ Tick(ExecHorizon, FALSE)
    \/ update_vm_metrics
    \/ analyze_metrics(MaxDecisions)
    \/ count_increment
    \/ cleanup_old_decisions
    \/ register_decision_callback
    \/ process_decisions
    \/ execution_loop
    \/ \E outcome \in ExecOutcomes : execute_decision(outcome)
    \/ retry_after_sleep

\* ------------------------------------------------------------------------
\* RealTimeMonitor: the moving averages of one VM
\* ------------------------------------------------------------------------
labOther == <<poolVars, hostVars, mgrVars, vmVars, dispVars, engineVars, executorVars, seenVars, lateVars>>

MetricHistoryMax == 300
Window5min == 60
Window15min == 180

\* What one tick reads of a running VM: cpu_percent and memory_bytes.
Samples == {[cpu |-> 10, mem |-> 2], [cpu |-> 90, mem |-> 5]}

\* std::accumulate over data[first..last], by halves.
RECURSIVE Accumulate(_, _, _)
Accumulate(data, first, last) ==
    IF first > last THEN 0
    ELSE IF first = last THEN data[first]
    ELSE LET mid == (first + last) \div 2
         IN Accumulate(data, first, mid) + Accumulate(data, mid + 1, last)

LastN(data, n) == SubSeq(data, Len(data) - n + 1, Len(data))

\* The average of a vector of double: the exact quotient sum / elements,
\* kept as its two terms.
calculate_moving_average(data, window) ==
    IF data = <<>> THEN [sum |-> 0, elements |-> 1]
    ELSE LET elements == Min({Len(data), window})
         IN [sum |-> Accumulate(data, Len(data) - elements + 1, Len(data)),
             elements |-> elements]

\* The average of a vector of uint64_t: the integer quotient.
calculate_moving_average_u64(data, window) ==
    IF data = <<>> THEN 0
    ELSE LET elements == Min({Len(data), window})
         IN Accumulate(data, Len(data) - elements + 1, Len(data)) \div elements

HistoryFullLate(h) == Len(h) > MetricHistoryMax + 1
HistoryFull(h) == Len(h) > MetricHistoryMax

\* push_back, then erase(begin()) when the vector has grown over the limit.
PushSample(h, x) ==
    LET grown == Append(h, x)
    IN IF HistoryFull(grown) THEN Tail(grown) ELSE grown

update_moving_averages(m, usage) ==
    LET cpu == PushSample(m.cpu_history, usage.cpu)
        mem == PushSample(m.memory_history, usage.mem)
    IN [cpu_history |-> cpu,
        memory_history |-> mem,
        cpu_avg_5min |-> calculate_moving_average(cpu, Window5min),
        cpu_avg_15min |-> calculate_moving_average(cpu, Window15min),
        memory_avg_5min |-> calculate_moving_average_u64(mem, Window5min)]

\* A default-constructed VMMetrics.
FreshMetrics ==
    [cpu_history |-> <<>>, memory_history |-> <<>>,
     cpu_avg_5min |-> [sum |-> 0, elements |-> 1],
     cpu_avg_15min |-> [sum |-> 0, elements |-> 1],
     memory_avg_5min |-> 0]

\* One tick of the monitoring loop for a running VM that has a domain (for
\* any other VM the tick changes nothing): the sample is put in a local
\* VMMetrics, which update_moving_averages completes and which then
\* replaces vm_metrics[vm_name].
monitor_tick(usage) ==
    /\ Len(arrived) < MaxMonTicks
    /\ vm_metrics' = update_moving_averages(FreshMetrics, usage)
    /\ arrived' = Append(arrived, usage)
    /\ UNCHANGED <<metrics, fed, histVars, lockVars, ruleVars, labOther>>

\* update_moving_averages applied once more to one and the same VMMetrics.
feed_metrics(usage) ==
    /\ fed < MaxMonTicks
    /\ metrics' = update_moving_averages(metrics, usage)
    /\ fed' = fed + 1
    /\ UNCHANGED <<vm_metrics, arrived, histVars, lockVars, ruleVars, labOther>>

\* A VMMetrics whose histories hold n samples.
MetricsOfLength(n) ==
    LET cpu == [i \in 1..n |-> 10 * (i % 7)]
        mem == [i \in 1..n |-> i % 5]
    IN [cpu_history |-> cpu,
        memory_history |-> mem,
        cpu_avg_5min |-> calculate_moving_average(cpu, Window5min),
        cpu_avg_15min |-> calculate_moving_average(cpu, Window15min),
        memory_avg_5min |-> calculate_moving_average_u64(mem, Window5min)]

IdleMon ==
    /\ vm_metrics = FreshMetrics
    /\ arrived = <<>>
    /\ metrics = FreshMetrics
    /\ fed = 0

\* The monitor before its first tick; the VMMetrics given to
\* update_moving_averages is empty, or one sample short of full, or full.
InitMon ==
    /\ vm_metrics = FreshMetrics
    /\ arrived = <<>>
    /\ metrics \in {MetricsOfLength(n) : n \in {0, MetricHistoryMax - 1, MetricHistoryMax}}
    /\ fed = 0

\* ------------------------------------------------------------------------
\* AutoScalingEngine: the decision history of one VM in the long run
\* ------------------------------------------------------------------------
\* The decisions of a history, numbered in the order they were made.
HistoryOfLength(n) == [i \in 1..n |-> i]

NextNumber(h) == IF h = <<>> THEN 1 ELSE h[Len(h)] + 1

\* update_decision_history for the next decision of the VM.
append_decision ==
    /\ appended < MaxAppends
    /\ history' = update_decision_history(history, Decision("ScaleUp", NextNumber(history)))
    /\ historyBefore' = history
    /\ appended' = appended + 1
    /\ UNCHANGED <<monVars, lockVars, ruleVars, labOther>>

IdleHist ==
    /\ history = <<>>
    /\ historyBefore = <<>>
    /\ appended = 0

\* The history is empty, or one entry short of the bound, or at the bound.
InitHist ==
    /\ history \in {HistoryOfLength(n) : n \in {0, HistoryCap - 1, HistoryCap}}
    /\ historyBefore = history
    /\ appended = 0

\* ------------------------------------------------------------------------
\* AutoScalingEngine and DecisionExecutor: the threads and decision_mutex
\* ------------------------------------------------------------------------
\* The monitoring thread (analyze_metrics), the decision thread
\* (decision_loop), the worker of the executor (execution_loop) and a
\* caller of get_decision_history.
Threads == {"monitor", "decision", "worker", "caller"}
Free == "free"

\* Where a thread reads or writes decision_history.
InHistory == {"appending", "cleaning", "reading"}

Goes(t, from, to) == at[t] = from /\ at' = [at EXCEPT ![t] = to]

Lock(t) == decision_mutex = Free /\ decision_mutex' = t
Unlock(t) == decision_mutex = t /\ decision_mutex' = Free

\* analyze_metrics with a decision that is not Maintain: lock_guard, push.
analyze_lock ==
    /\ queued < MaxQueue
    /\ Goes("monitor", "idle", "pushing")
    /\ Lock("monitor")
    /\ UNCHANGED <<queued, handed, monVars, histVars, ruleVars, labOther>>

analyze_push ==
    /\ Goes("monitor", "pushing", "idle")
    /\ Unlock("monitor")
    /\ queued' = queued + 1
    /\ UNCHANGED <<handed, monVars, histVars, ruleVars, labOther>>

\* process_decisions: lock_guard for the whole loop.
process_lock ==
    /\ Goes("decision", "idle", "processing")
    /\ Lock("decision")
    /\ UNCHANGED <<queued, handed, monVars, histVars, ruleVars, labOther>>

\* One round of the loop up to update_decision_history: pop, the callback
\* (schedule_execution, which takes the decision or skips it), the call
\* into the VM manager.
process_take(taken) ==
    /\ queued > 0
    /\ taken => handed < MaxQueue
    /\ Goes("decision", "processing", "appending")
    /\ queued' = queued - 1
    /\ handed' = IF taken THEN handed + 1 ELSE handed
    /\ UNCHANGED <<decision_mutex, monVars, histVars, ruleVars, labOther>>

\* update_decision_history returns.
process_appended ==
    /\ Goes("decision", "appending", "processing")
    /\ UNCHANGED <<decision_mutex, queued, handed, monVars, histVars, ruleVars, labOther>>

\* The queue is empty: process_decisions returns.
process_unlock ==
    /\ queued = 0
    /\ Goes("decision", "processing", "processed")
    /\ Unlock("decision")
    /\ UNCHANGED <<queued, handed, monVars, histVars, ruleVars, labOther>>

\* cleanup_old_decisions: lock_guard, remove_if over the history.
cleanup_lock ==
    /\ Goes("decision", "processed", "cleaning")
    /\ Lock("decision")
    /\ UNCHANGED <<queued, handed, monVars, histVars, ruleVars, labOther>>

cleanup_unlock ==
    /\ Goes("decision", "cleaning", "idle")
    /\ Unlock("decision")
    /\ UNCHANGED <<queued, handed, monVars, histVars, ruleVars, labOther>>

\* get_decision_history: lock_guard, find and copy.
get_lock ==
    /\ Goes("caller", "idle", "reading")
    /\ Lock("caller")
    /\ UNCHANGED <<queued, handed, monVars, histVars, ruleVars, labOther>>

get_unlock ==
    /\ Goes("caller", "reading", "idle")
    /\ Unlock("caller")
    /\ UNCHANGED <<queued, handed, monVars, histVars, ruleVars, labOther>>

\* execution_loop: the front of execution_queue, under execution_mutex.
worker_take ==
    /\ handed > 0
    /\ Goes("worker", "idle", "executing")
    /\ handed' = handed - 1
    /\ UNCHANGED <<decision_mutex, queued, monVars, histVars, ruleVars, labOther>>

\* execute_decision, scale_up_resource, apply_scaling_decision up to
\* update_decision_history: no lock is taken on the way.
worker_apply ==
    /\ Goes("worker", "executing", "appending")
    /\ UNCHANGED <<decision_mutex, queued, handed, monVars, histVars, ruleVars, labOther>>

worker_appended ==
    /\ Goes("worker", "appending", "idle")
    /\ UNCHANGED <<decision_mutex, queued, handed, monVars, histVars, ruleVars, labOther>>

IdleLock ==
    /\ decision_mutex = Free
    /\ at = [t \in Threads |-> "idle"]
    /\ queued = 0
    /\ handed = 0

InitLock == IdleLock

NextLock ==
    \/ analyze_lock
    \/ analyze_push
    \/ process_lock
    \/ \E taken \in BOOLEAN : process_take(taken)
    \/ process_appended
    \/ process_unlock
    \/ cleanup_lock
    \/ cleanup_unlock
    \/ get_lock
    \/ get_unlock
    \/ worker_take
    \/ worker_apply
    \/ worker_appended

\* ------------------------------------------------------------------------
\* AutoScalingEngine: the rules of analyze_metrics
\* ------------------------------------------------------------------------
\* The thresholds of a new engine, and those main() sets.
DefaultThresholds == [cpu_up |-> 80, cpu_down |-> 20, mem_up |-> 85, mem_down |-> 30]
MainThresholds == [cpu_up |-> 75, cpu_down |-> 25, mem_up |-> 80, mem_down |-> 35]

\* Memory is counted in MiB here, in bytes in the code. 1024 * 1024 * 1024:
GiB == 1024

\* The limits create_default_config gives a VM: 1 to 32 cores; 512 MiB to
\* 64 GiB, of which the VM has one of MemoryCurrents.
CoresMin == 1
CoresMax == 32
MemoryMin == 512
MemoryMax == 65536
MemoryCurrents == {512, 768, 1024, 4096, 65536}

\* uint64_t: a value below 2^63 stands for itself, a value from 2^63 on is
\* written as the negative number that is 2^64 below it, so that the
\* difference of two small values is their difference modulo 2^64.
Less64(x, y) == IF (x < 0) = (y < 0) THEN x < y ELSE y < 0
Max64(x, y) == IF Less64(x, y) THEN y ELSE x
Min64(x, y) == IF Less64(y, x) THEN y ELSE x

\* static_cast<uint64_t>(current * 0.25)
Quarter(current) == current \div 4

calculate_cpu_increase(limit) ==
    Min64(limit.current_value + Max64(1, Quarter(limit.current_value)), limit.max_value)

calculate_cpu_decrease(limit) ==
    Max64(limit.current_value - Max64(1, Quarter(limit.current_value)), limit.min_value)

calculate_memory_increase(limit) ==
    Min64(limit.current_value + Max64(GiB, Quarter(limit.current_value)), limit.max_value)

calculate_memory_decrease(limit) ==
    Max64(limit.current_value - Max64(GiB, Quarter(limit.current_value)), limit.min_value)

\* current * (predicted_usage / 100.0) * 0.3, truncated.
calculate_predicted_increase(g, predicted_usage) ==
    IF ~g.has_cpu_limit THEN 0
    ELSE LET current == g.cpu_limit.current_value
             increase == Max64(1, (current * predicted_usage * 3) \div 1000)
         IN Min64(current + increase, g.cpu_limit.max_value)

Proposal(action, resource, amount) ==
    [action |-> action, resource |-> resource, amount |-> amount]

\* decision.action = Maintain; resource and amount are not set.
NoProposal == Proposal("Maintain", "none", 0)

AnalyzeCpuUsage(g, d) ==
    IF ~g.has_cpu_limit THEN d
    ELSE IF g.cpu_percent > g.th.cpu_up /\ g.cpu_avg_5min > g.th.cpu_up - 10
    THEN Proposal("ScaleUp", "CPU", calculate_cpu_increase(g.cpu_limit))
    ELSE IF g.cpu_percent < g.th.cpu_down /\ g.cpu_avg_5min < g.th.cpu_down + 5
    THEN Proposal("ScaleDown", "CPU", calculate_cpu_decrease(g.cpu_limit))
    ELSE d

\* memory_usage_percent and avg_5min are the two quotients by
\* memory_max_bytes, given here by their values.
AnalyzeMemoryUsage(g, d) ==
    IF ~g.has_mem_limit THEN d
    ELSE LET memory_more_critical ==
                 /\ g.mem_percent > g.th.mem_up
                 /\ (d.action = "Maintain" \/ g.mem_percent > g.th.cpu_up + 10)
         IN IF memory_more_critical /\ g.mem_avg_5min > g.th.mem_up - 10
            THEN Proposal("ScaleUp", "Memory", calculate_memory_increase(g.mem_limit))
            ELSE IF /\ g.mem_percent < g.th.mem_down
                    /\ g.mem_avg_5min < g.th.mem_down + 5
                    /\ d.action = "Maintain"
            THEN Proposal("ScaleDown", "Memory", calculate_memory_decrease(g.mem_limit))
            ELSE d

\* predicted is what predict_usage returns: the mean of the pattern the VM
\* was trained with, 0 without one.
AnalyzeUsagePatterns(g, d) ==
    IF g.predicted > g.th.cpu_up /\ d.action = "Maintain"
    THEN Proposal("ScaleUp", "CPU", calculate_predicted_increase(g, g.predicted))
    ELSE d

\* The metric events: what the engine holds for the VM and what the event
\* carries.
Events ==
    [th : {DefaultThresholds, MainThresholds},
     has_cpu_limit : BOOLEAN,
     has_mem_limit : BOOLEAN,
     cpu_limit : {[min_value |-> CoresMin, max_value |-> CoresMax, current_value |-> c] :
                     c \in CoresMin..MaxVcpus},
     mem_limit : {[min_value |-> MemoryMin, max_value |-> MemoryMax, current_value |-> c] :
                     c \in MemoryCurrents},
     cpu_percent : {10, 50, 85},
     cpu_avg_5min : {10, 75},
     mem_percent : {20, 50, 92, 97},
     mem_avg_5min : {20, 70, 92},
     predicted : {0, 90}]

NotAnalysed == [after_cpu |-> NoProposal, after_memory |-> NoProposal,
                final |-> NoProposal, queue |-> <<>>, done |-> FALSE]

\* analyze_metrics for the first event of a VM: the rules one after the
\* other (those of I/O and of the network are empty), then
\* check_rate_limit, which finds no earlier decision and returns true,
\* then the push of a decision that is not Maintain.
analyze_event ==
    /\ ~proposed.done
    /\ LET d1 == AnalyzeCpuUsage(given, NoProposal)
           d2 == AnalyzeMemoryUsage(given, d1)
           d3 == AnalyzeUsagePatterns(given, d2)
       IN proposed' = [after_cpu |-> d1, after_memory |-> d2, final |-> d3,
                       queue |-> IF d3.action = "Maintain" THEN <<>> ELSE <<d3>>,
                       done |-> TRUE]
    /\ UNCHANGED <<given, monVars, histVars, lockVars, labOther>>

IdleRules ==
    /\ given = CHOOSE g \in Events : TRUE
    /\ proposed = NotAnalysed

InitRules ==
    /\ given \in Events
    /\ proposed = NotAnalysed

NextRules == analyze_event

\* ------------------------------------------------------------------------
\* AutoScalingEngine and VirtualMachine: one decision after the other
\* ------------------------------------------------------------------------
CpuLoads == {10, 50, 95}

\* The metric event of a VM under a load that has lasted: what
\* analyze_cpu_usage reads, with the current value that
\* set_resource_limits copied into resource_limits of the engine.
EventUnder(pct, current) ==
    [th |-> DefaultThresholds,
     has_cpu_limit |-> TRUE,
     cpu_limit |-> [min_value |-> CoresMin, max_value |-> CoresMax, current_value |-> current],
     cpu_percent |-> pct,
     cpu_avg_5min |-> pct]

\* VirtualMachine::scaleCPU of the running VM: ResourceLimit.current after
\* the call.
CurrentAfterScale(current, vcpus, libOK) ==
    IF vcpus < CoresMin \/ vcpus > CoresMax \/ ~libOK THEN current ELSE vcpus

\* A metric event, more than 2 minutes after the one before, and what
\* follows from it: analyze_metrics, process_decisions,
\* apply_scaling_decision, scale_resource, scaleVMCPU, scaleCPU. Nothing on
\* this path writes resource_limits of the engine.
scale_round(pct, libOK) ==
    /\ Len(decided) < MaxRounds
    /\ LET d == AnalyzeCpuUsage(EventUnder(pct, engine_current), NoProposal)
       IN /\ decided' = Append(decided, [load |-> pct, proposal |-> d, vm_before |-> vm_current])
          /\ vm_current' = IF d.action = "Maintain" THEN vm_current
                           ELSE CurrentAfterScale(vm_current, d.amount, libOK)
    /\ UNCHANGED <<engine_current, loopRest>>

IdleLoop ==
    /\ engine_current = CoresMin
    /\ vm_current = CoresMin
    /\ decided = <<>>

\* configure_scaling has given the engine the limits of the VM.
InitLoop ==
    /\ engine_current \in CoresMin..MaxVcpus
    /\ vm_current = engine_current
    /\ decided = <<>>

NextLoop == \E pct \in CpuLoads, libOK \in BOOLEAN : scale_round(pct, libOK)

\* ------------------------------------------------------------------------
\* VirtualMachineManager: the constructor and loadExistingVMs
\* ------------------------------------------------------------------------
DomainStates == {"Running", "Paused", "Shutoff"}
DomainVcpus == {1, 4}
NoDomain == [known |-> FALSE, state |-> "Shutoff", nrVirtCpu |-> 1]

KnownDomains ==
    {NoDomain} \cup [known : {TRUE}, state : DomainStates, nrVirtCpu : DomainVcpus]

\* VMConfig{}.vcpus
DefaultVcpus == 2

\* The VirtualMachine that loadExistingVMs makes for a domain: status is
\* the initial Stopped (the status found is passed to notifyStatusChange
\* alone), the domain is assigned to the copy that getDomain() returns,
\* and resource_limits is the empty config.limits.
LoadedVM(dom, infoOK) ==
    [status |-> "Stopped",
     domain |-> FALSE,
     vcpus |-> IF infoOK THEN dom.nrVirtCpu ELSE DefaultVcpus,
     resource_limits |-> {},
     info_read |-> infoOK]

\* VirtualMachineManager::VirtualMachineManager
loadExistingVMs(listOK, infoOK) ==
    /\ constructed = "no"
    /\ IF ~listOK
       THEN virtual_machines' = << >> /\ constructed' = "failed"
       ELSE /\ virtual_machines' =
                [n \in {x \in Names : libvirt_domains[x].known} |->
                    LoadedVM(libvirt_domains[n], infoOK[n])]
            /\ constructed' = "loaded"
    /\ UNCHANGED <<libvirt_domains, regRest>>

IdleReg ==
    /\ libvirt_domains = [n \in Names |-> NoDomain]
    /\ virtual_machines = << >>
    /\ constructed = "no"

InitReg ==
    /\ libvirt_domains \in [Names -> KnownDomains]
    /\ virtual_machines = << >>
    /\ constructed = "no"

NextReg ==
    \E listOK \in BOOLEAN, infoOK \in [Names -> BOOLEAN] : loadExistingVMs(listOK, infoOK)

\* ------------------------------------------------------------------------
\* CGroupManager
\* ------------------------------------------------------------------------
Pids == 1..MaxPids

\* writeValue("cgroup.procs", pid) on the directory of the manager: the
\* kernel puts the process into that cgroup. It throws when the file
\* cannot be opened.
WriteProcs(procs, pid, openOK) == IF openOK THEN procs \cup {pid} ELSE procs

\* CGroupManager::addProcess
addProcess(pid, openOK) ==
    /\ released = "no"
    /\ cgroup_dir
    /\ cgroup_procs' = WriteProcs(cgroup_procs, pid, openOK)
    /\ managedProcesses' = IF openOK THEN managedProcesses \cup {pid} ELSE managedProcesses
    /\ UNCHANGED <<cgroup_dir, released, tracked_at_release, cgRest>>

\* CGroupManager::removeProcess: the process is no longer tracked.
removeProcess(pid) ==
    /\ released = "no"
    /\ managedProcesses' = managedProcesses \ {pid}
    /\ UNCHANGED <<cgroup_procs, cgroup_dir, released, tracked_at_release, cgRest>>

\* A process of the cgroup exits.
process_exits(pid) ==
    /\ released = "no"
    /\ pid \in cgroup_procs
    /\ cgroup_procs' = cgroup_procs \ {pid}
    /\ UNCHANGED <<managedProcesses, cgroup_dir, released, tracked_at_release, cgRest>>

\* CGroupManager::~CGroupManager, the one caller of releaseResources.
\* removeProcessFromCGroup is writeValue("cgroup.procs", pid) on the same
\* directory, its exception is caught pid by pid; a filesystem_error of
\* exists or remove_all leaves releaseResources as CGroupException, which
\* the destructor catches.
releaseResources(openOK, fsOK) ==
    /\ released = "no"
    /\ tracked_at_release' = managedProcesses
    /\ managedProcesses' = {}
    /\ LET procs == IF openOK /\ cgroup_dir THEN cgroup_procs \cup managedProcesses
                    ELSE cgroup_procs
       IN /\ cgroup_procs' = procs
          /\ IF ~fsOK THEN released' = "caught" /\ UNCHANGED cgroup_dir
             ELSE /\ released' = "returned"
                  /\ cgroup_dir' = (cgroup_dir /\ procs # {})
    /\ UNCHANGED cgRest

IdleCg ==
    /\ managedProcesses = {}
    /\ cgroup_procs = {}
    /\ cgroup_dir = TRUE
    /\ released = "no"
    /\ tracked_at_release = {}

InitCg == IdleCg

NextCg ==
    \/ \E pid \in Pids, openOK \in BOOLEAN : addProcess(pid, openOK)
    \/ \E pid \in Pids : removeProcess(pid)
    \/ \E pid \in Pids : process_exits(pid)
    \/ \E openOK \in BOOLEAN, fsOK \in BOOLEAN : releaseResources(openOK, fsOK)

\* ------------------------------------------------------------------------
\* HypervisorConnector
\* ------------------------------------------------------------------------
Handles == 1..MaxHandles
NullHandle == 0

HcCall(op, was_open, ret, changed, h, live) ==
    [op |-> op, was_open |-> was_open, ret |-> ret, changed |-> changed,
     handle |-> h, live |-> live]

AlreadyOpenNever(c) == FALSE
AlreadyOpen(c) == c # NullHandle

\* std::scoped_lock lock(mutex_) at the head of a member function.
Enters(t, op) ==
    /\ hpc[t] = "idle"
    /\ mutex_ = NoThread
    /\ mutex_' = t
    /\ hpc' = [hpc EXCEPT ![t] = op]

\* The body of connect under the lock: nothing when conn is set, else
\* virConnectOpen, which gives a new connection or nullptr.
ConnectBody(openOK) ==
    IF AlreadyOpen(handle) THEN
        /\ UNCHANGED <<handle, libvirt_open, alive, opened_so_far>>
    ELSE IF openOK THEN
        /\ handle' = opened_so_far + 1
        /\ libvirt_open' = libvirt_open \cup {opened_so_far + 1}
        /\ alive' = alive \cup {opened_so_far + 1}
        /\ opened_so_far' = opened_so_far + 1
    ELSE
        /\ UNCHANGED <<handle, libvirt_open, alive, opened_so_far>>

connect_lock(t) ==
    /\ Enters(t, "connect")
    /\ UNCHANGED <<handle, libvirt_open, alive, closes, opened_so_far, hlast, connRest>>

\* HypervisorConnector::connect
connect(t, openOK) ==
    /\ hpc[t] = "connect"
    /\ openOK => opened_so_far < MaxHandles
    /\ ConnectBody(openOK)
    /\ hlast' = HcCall("connect", handle # NullHandle, handle' # NullHandle,
                       libvirt_open' # libvirt_open, handle', handle' \in alive')
    /\ mutex_' = NoThread
    /\ hpc' = [hpc EXCEPT ![t] = "idle"]
    /\ UNCHANGED <<closes, connRest>>

close_lock(t) ==
    /\ Enters(t, "close")
    /\ UNCHANGED <<handle, libvirt_open, alive, closes, opened_so_far, hlast, connRest>>

\* HypervisorConnector::close
close(t) ==
    /\ hpc[t] = "close"
    /\ IF handle # NullHandle
       THEN /\ libvirt_open' = libvirt_open \ {handle}
            /\ alive' = alive \ {handle}
            /\ closes' = [closes EXCEPT ![handle] = @ + 1]
            /\ handle' = NullHandle
       ELSE UNCHANGED <<handle, libvirt_open, alive, closes>>
    /\ hlast' = HcCall("close", handle # NullHandle, TRUE, handle # NullHandle,
                       NullHandle, FALSE)
    /\ mutex_' = NoThread
    /\ hpc' = [hpc EXCEPT ![t] = "idle"]
    /\ UNCHANGED <<opened_so_far, connRest>>

\* The hypervisor goes away under an open connection.
connection_dies ==
    /\ \E h \in alive : alive' = alive \ {h}
    /\ UNCHANGED <<handle, libvirt_open, closes, opened_so_far, mutex_, hpc, hlast, connRest>>

\* HypervisorConnector::ensureConnected, the test of conn under the lock:
\* with conn set it is returned as it is, no question being put to
\* libvirt; without, the lock is left for connectOrThrow.
ensure_check(t) ==
    /\ hpc[t] = "idle"
    /\ mutex_ = NoThread
    /\ IF handle # NullHandle
       THEN /\ hlast' = HcCall("ensureConnected", TRUE, TRUE, FALSE, handle, handle \in alive)
            /\ UNCHANGED hpc
       ELSE /\ hpc' = [hpc EXCEPT ![t] = "ensure_connect"]
            /\ UNCHANGED hlast
    /\ UNCHANGED <<handle, libvirt_open, alive, closes, opened_so_far, mutex_, connRest>>

\* ... connectOrThrow: connect under the lock, an exception when it
\* returns false.
ensure_connect(t, openOK) ==
    /\ hpc[t] = "ensure_connect"
    /\ mutex_ = NoThread
    /\ openOK => opened_so_far < MaxHandles
    /\ ConnectBody(openOK)
    /\ IF handle' # NullHandle
       THEN hpc' = [hpc EXCEPT ![t] = "ensure_return"] /\ UNCHANGED hlast
       ELSE /\ hpc' = [hpc EXCEPT ![t] = "idle"]
            /\ hlast' = HcCall("ensureConnected", FALSE, FALSE, FALSE, NullHandle, FALSE)
    /\ UNCHANGED <<closes, mutex_, connRest>>

\* ... the lock again, and return conn.
ensure_return(t) ==
    /\ hpc[t] = "ensure_return"
    /\ mutex_ = NoThread
    /\ hlast' = HcCall("ensureConnected", FALSE, TRUE, TRUE, handle, handle \in alive)
    /\ hpc' = [hpc EXCEPT ![t] = "idle"]
    /\ UNCHANGED <<handle, libvirt_open, alive, closes, opened_so_far, mutex_, connRest>>

IdleConn ==
    /\ handle = NullHandle
    /\ libvirt_open = {}
    /\ alive = {}
    /\ closes = [h \in Handles |-> 0]
    /\ opened_so_far = 0
    /\ mutex_ = NoThread
    /\ hpc = [t \in Callers |-> "idle"]
    /\ hlast = HcCall("none", FALSE, FALSE, FALSE, NullHandle, FALSE)

InitConn == IdleConn

NextConn ==
    \/ \E t \in Callers : connect_lock(t)
    \/ \E t \in Callers, openOK \in BOOLEAN : connect(t, openOK)
    \/ \E t \in Callers : close_lock(t)
    \/ \E t \in Callers : close(t)
    \/ connection_dies
    \/ \E t \in Callers : ensure_check(t)
    \/ \E t \in Callers, openOK \in BOOLEAN : ensure_connect(t, openOK)
    \/ \E t \in Callers : ensure_return(t)

\* ------------------------------------------------------------------------
\* The mutexes of the monitor, the engine, the executor, the manager and
\* a VM, and the threads that take them.
\* ------------------------------------------------------------------------
Actors == {"sampler", "engine", "executor", "maintenance", "api"}

Mutexes == {"metrics_mutex", "decision_mutex", "execution_mutex", "vm_map_mutex", "status_mutex"}

Take(m) == [op |-> "lock", m |-> m]
Drop(m) == [op |-> "unlock", m |-> m]

\* std::lock_guard lock(m) around a body.
Guarded(m, body) == <<Take(m)>> \o body \o <<Drop(m)>>

\* A VirtualMachine member function under status_mutex.
vm_call == Guarded("status_mutex", <<>>)

\* A VirtualMachineManager function: vm_map_mutex, and under it the
\* calls it makes on the VM.
manager_call(calls) == Guarded("vm_map_mutex", calls)

\* RealTimeMonitor::update_vm_metrics: listVMs, getVM and getStatus under
\* metrics_mutex.
update_vm_metrics_locks ==
    Guarded("metrics_mutex", manager_call(<<>>) \o manager_call(<<>>) \o vm_call)

\* RealTimeMonitor::notify_subscribers: the callbacks, here
\* AutoScalingEngine::analyze_metrics with its push, under metrics_mutex.
notify_subscribers_locks ==
    Guarded("metrics_mutex", Guarded("decision_mutex", <<>>))

\* AutoScalingEngine::apply_scaling_decision: scaleVMCPU and the like.
apply_scaling_decision_locks == manager_call(vm_call)

\* DecisionExecutor::schedule_execution
schedule_execution_locks == Guarded("execution_mutex", <<>>)

\* AutoScalingEngine::process_decisions: the callbacks, here
\* schedule_execution, and apply_scaling_decision under decision_mutex.
process_decisions_locks_reading_metrics ==
    Guarded("decision_mutex",
            Guarded("metrics_mutex", <<>>) \o schedule_execution_locks \o apply_scaling_decision_locks)
process_decisions_locks ==
    Guarded("decision_mutex", schedule_execution_locks \o apply_scaling_decision_locks)

\* DecisionExecutor::execution_loop: the queue under execution_mutex, the
\* decision executed after the lock is left, rescheduled when it threw.
execution_loop_locks(threw) ==
    Guarded("execution_mutex", <<>>) \o apply_scaling_decision_locks
        \o (IF threw THEN schedule_execution_locks ELSE <<>>)

\* VirtualMachineManager::check_vms_health: stop and start of a VM in
\* Error under vm_map_mutex.
check_vms_health_locks(anError) ==
    manager_call(IF anError THEN vm_call \o vm_call ELSE <<>>)

\* The calls each thread makes.
Calls(t) ==
    CASE t = "sampler" ->
            {update_vm_metrics_locks, Guarded("metrics_mutex", <<>>), notify_subscribers_locks}
      [] t = "engine" ->
            {process_decisions_locks, Guarded("decision_mutex", <<>>)}
      [] t = "executor" ->
            {execution_loop_locks(threw) : threw \in BOOLEAN}
      [] t = "maintenance" ->
            {check_vms_health_locks(anError) : anError \in BOOLEAN} \cup {manager_call(<<>>)}
      [] OTHER ->
            {manager_call(vm_call), manager_call(<<>>), Guarded("metrics_mutex", <<>>),
             Guarded("decision_mutex", <<>>), Guarded("execution_mutex", <<>>)}

Holder(m) ==
    IF \E t \in Actors : \E i \in 1..Len(held[t]) : held[t][i] = m
    THEN CHOOSE t \in Actors : \E i \in 1..Len(held[t]) : held[t][i] = m
    ELSE "nobody"

\* A thread enters one of its calls.
enter_call(t, call) ==
    /\ todo[t] = <<>>
    /\ todo' = [todo EXCEPT ![t] = call]
    /\ UNCHANGED <<held, ordRest>>

\* std::mutex::lock: it returns when nobody holds the mutex.
lock_mutex(t) ==
    /\ todo[t] # <<>>
    /\ Head(todo[t]).op = "lock"
    /\ Holder(Head(todo[t]).m) = "nobody"
    /\ held' = [held EXCEPT ![t] = Append(@, Head(todo[t]).m)]
    /\ todo' = [todo EXCEPT ![t] = Tail(@)]
    /\ UNCHANGED ordRest

\* std::mutex::unlock at the end of the scope; the last one taken.
unlock_mutex(t) ==
    /\ todo[t] # <<>>
    /\ Head(todo[t]).op = "unlock"
    /\ held' = [held EXCEPT ![t] = SubSeq(@, 1, Len(@) - 1)]
    /\ todo' = [todo EXCEPT ![t] = Tail(@)]
    /\ UNCHANGED ordRest

IdleOrd ==
    /\ held = [t \in Actors |-> <<>>]
    /\ todo = [t \in Actors |-> <<>>]

InitOrd == IdleOrd

NextOrd ==
    \/ \E t \in Actors : \E call \in Calls(t) : enter_call(t, call)
    \/ \E t \in Actors : lock_mutex(t)
    \/ \E t \in Actors : unlock_mutex(t)

\* ------------------------------------------------------------------------
\* VirtualMachineManager::removeVM and the pointers getVM hands out
\* ------------------------------------------------------------------------
VmIds == 1..MaxId
NoVm == 0

\* What the status read through a pointer can give: the status of the
\* object while it lives, anything once it is destroyed.
ReadsOf(v) ==
    IF vm_record[v] = "destroyed" THEN {"Running", "Stopped", "fault"}
    ELSE {IF vm_running[v] THEN "Running" ELSE "Stopped"}

register_vm(v) ==
    /\ vm_record[v] = "absent"
    /\ vm_record' = [vm_record EXCEPT ![v] = "registered"]
    /\ UNCHANGED <<vm_running, sampling, sampler_pc, sampler_use, remRest>>

run_vm(v) ==
    /\ vm_record[v] = "registered"
    /\ ~vm_running[v]
    /\ vm_running' = [vm_running EXCEPT ![v] = TRUE]
    /\ UNCHANGED <<vm_record, sampling, sampler_pc, sampler_use, remRest>>

\* update_vm_metrics: getVM(vm_name) under vm_map_mutex, the pointer
\* kept after the lock is left.
sampler_getVM(v) ==
    /\ sampling = NoVm
    /\ vm_record[v] = "registered"
    /\ sampling' = v
    /\ sampler_pc' = "getStatus"
    /\ UNCHANGED <<vm_record, vm_running, sampler_use, remRest>>

\* ... vm->getStatus(); the VM is skipped unless it runs.
sampler_getStatus(read) ==
    /\ sampling # NoVm
    /\ sampler_pc = "getStatus"
    /\ read \in ReadsOf(sampling)
    /\ sampler_use' = [vm |-> sampling, met |-> vm_record[sampling], read |-> read]
    /\ IF read = "Running"
       THEN sampler_pc' = "getDomain" /\ UNCHANGED sampling
       ELSE sampler_pc' = "idle" /\ sampling' = NoVm
    /\ UNCHANGED <<vm_record, vm_running, remRest>>

\* ... vm->getDomain() and the queries of libvirt with it.
sampler_getDomain ==
    /\ sampling # NoVm
    /\ sampler_pc = "getDomain"
    /\ sampler_use' = [vm |-> sampling, met |-> vm_record[sampling], read |-> "domain"]
    /\ sampler_pc' = "idle"
    /\ sampling' = NoVm
    /\ UNCHANGED <<vm_record, vm_running, remRest>>

\* removeVM under vm_map_mutex: the VM is stopped, its unique_ptr moved
\* out of the map and returned.
removeVM(v) ==
    /\ vm_record[v] = "registered"
    /\ vm_record' = [vm_record EXCEPT ![v] = "removed"]
    /\ vm_running' = [vm_running EXCEPT ![v] = FALSE]
    /\ UNCHANGED <<sampling, sampler_pc, sampler_use, remRest>>

\* The caller of removeVM lets go of the unique_ptr: ~VirtualMachine.
record_destroyed(v) ==
    /\ vm_record[v] = "removed"
    /\ vm_record' = [vm_record EXCEPT ![v] = "destroyed"]
    /\ UNCHANGED <<vm_running, sampling, sampler_pc, sampler_use, remRest>>

IdleRem ==
    /\ vm_record = [v \in VmIds |-> "absent"]
    /\ vm_running = [v \in VmIds |-> FALSE]
    /\ sampling = NoVm
    /\ sampler_pc = "idle"
    /\ sampler_use = [vm |-> NoVm, met |-> "registered", read |-> "Stopped"]

InitRem == IdleRem

NextRem ==
    \/ \E v \in VmIds : register_vm(v)
    \/ \E v \in VmIds : run_vm(v)
    \/ \E v \in VmIds : sampler_getVM(v)
    \/ \E read \in {"Running", "Stopped", "fault"} : sampler_getStatus(read)
    \/ sampler_getDomain
    \/ \E v \in VmIds : removeVM(v)
    \/ \E v \in VmIds : record_destroyed(v)

IdleLate == IdleLoop /\ IdleReg /\ IdleCg /\ IdleConn /\ IdleOrd /\ IdleRem

IdleLab == IdleMon /\ IdleHist /\ IdleLock /\ IdleRules /\ IdleLate

\* The bounded histories: of the samples and of the decisions.
NextHistories ==
    \/ \E usage \in Samples : monitor_tick(usage)
    \/ \E usage \in Samples : feed_metrics(usage)
    \/ append_decision


\* ------------------------------------------------------------------------
\* Specifications
\* ------------------------------------------------------------------------
Init == InitMgr /\ IdleVM /\ IdleDisp /\ IdleAuto /\ IdleLab
Next == NextMgr
Spec == Init /\ [][Next]_vars

InitV == InitMgr /\ InitVM /\ IdleDisp /\ IdleAuto /\ IdleLab
SpecVM == InitV /\ [][NextVM]_vars

InitD == InitMgr /\ IdleVM /\ InitDisp /\ IdleAuto /\ IdleLab
SpecDisp == InitD /\ [][NextDisp]_vars

InitH == InitMgr /\ IdleVM /\ InitDisp /\ IdleAuto /\ IdleLab
SpecHc == InitH /\ [][NextHc]_vars

InitE == InitMgr /\ IdleVM /\ IdleDisp /\ InitAuto /\ IdleLab
SpecEngine == InitE /\ [][NextEngine]_vars

InitX == InitMgr /\ IdleVM /\ IdleDisp /\ InitAuto /\ IdleLab
SpecExec == InitX /\ [][NextExec]_vars

InitM == InitMgr /\ IdleVM /\ IdleDisp /\ IdleAuto /\ InitMon /\ InitHist /\ IdleLock /\ IdleRules /\ IdleLate
SpecHistories == InitM /\ [][NextHistories]_vars

InitL == InitMgr /\ IdleVM /\ IdleDisp /\ IdleAuto /\ IdleMon /\ IdleHist /\ InitLock /\ IdleRules /\ IdleLate
SpecLock == InitL /\ [][NextLock]_vars

InitR == InitMgr /\ IdleVM /\ IdleDisp /\ IdleAuto /\ IdleMon /\ IdleHist /\ IdleLock /\ InitRules /\ IdleLate
SpecRules == InitR /\ [][NextRules]_vars

InitLp == InitMgr /\ IdleVM /\ IdleDisp /\ IdleAuto /\ IdleMon /\ IdleHist /\ IdleLock /\ IdleRules /\ InitLoop /\ IdleReg /\ IdleCg /\ IdleConn /\ IdleOrd /\ IdleRem
SpecLoop == InitLp /\ [][NextLoop]_vars

InitRg == InitMgr /\ IdleVM /\ IdleDisp /\ IdleAuto /\ IdleMon /\ IdleHist /\ IdleLock /\ IdleRules /\ IdleLoop /\ InitReg /\ IdleCg /\ IdleConn /\ IdleOrd /\ IdleRem
SpecReg == InitRg /\ [][NextReg]_vars

InitC == InitMgr /\ IdleVM /\ IdleDisp /\ IdleAuto /\ IdleMon /\ IdleHist /\ IdleLock /\ IdleRules /\ IdleLoop /\ IdleReg /\ InitCg /\ IdleConn /\ IdleOrd /\ IdleRem
SpecCg == InitC /\ [][NextCg]_vars

InitHv == InitMgr /\ IdleVM /\ IdleDisp /\ IdleAuto /\ IdleMon /\ IdleHist /\ IdleLock /\ IdleRules /\ IdleLoop /\ IdleReg /\ IdleCg /\ InitConn /\ IdleOrd /\ IdleRem
SpecConn == InitHv /\ [][NextConn]_vars

InitO == InitMgr /\ IdleVM /\ IdleDisp /\ IdleAuto /\ IdleMon /\ IdleHist /\ IdleLock /\ IdleRules /\ IdleLoop /\ IdleReg /\ IdleCg /\ IdleConn /\ InitOrd /\ IdleRem
SpecOrder == InitO /\ [][NextOrd]_vars

InitRm == InitMgr /\ IdleVM /\ IdleDisp /\ IdleAuto /\ IdleMon /\ IdleHist /\ IdleLock /\ IdleRules /\ IdleLoop /\ IdleReg /\ IdleCg /\ IdleConn /\ IdleOrd /\ InitRem
SpecRemove == InitRm /\ [][NextRem]_vars

\* ------------------------------------------------------------------------
\* Properties
\* ------------------------------------------------------------------------

\* C1: no two live pool entries hold the same reserved port (so two
\* consecutive allocate() calls, whose entries are both live, return
\* distinct ports).
NoSharedReservedPort ==
    \A i, j \in DOMAIN entries :
        (i # j /\ entries[i].port # NoPort) => entries[i].port # entries[j].port

\* C2: when deploy returns the error of a failed start, the domain is not
\* defined and the pool entry allocated for this deploy is gone.
StartFailureRolledBack ==
    (lastRet.op = "deploy" /\ lastRet.res = "err_start") =>
        /\ lastRet.name \notin defined
        /\ lastRet.id \notin DOMAIN entries

\* C3: a delete called for an existing domain is never stuck on the manager
\* mutex (a caller that is "blocked" waits for the mutex it holds itself
\* and no step of any thread releases it), and a delete that returned
\* reported success.
DeleteNeverBlocks ==
    /\ \A t \in Callers : ~(pc[t] = "blocked" /\ opExisted[t])
    /\ (lastRet.op = "delete" /\ lastRet.existed) => lastRet.res = "ok"

LifecycleOps == {"start", "stop", "shutdown", "pause", "resume"}

\* C4: a lifecycle operation whose libvirt call failed leaves the status
\* it found.
FailedCallKeepsStatus ==
    (vmLast.op \in LifecycleOps /\ vmLast.lib = "fail") => status = vmLast.pre

\* C5: start() found the VM Stopped and, if it succeeded, left it Running;
\* or it found any other status, made no libvirt call, returned failure
\* and left the status.
StartOnlyFromStopped ==
    vmLast.op = "start" =>
        IF vmLast.pre = "Stopped"
        THEN vmLast.ret => status = "Running"
        ELSE ~vmLast.ret /\ vmLast.lib = "none" /\ status = vmLast.pre

\* C6: the callback of a timer is never invoked after cancel() returned.
CancelledTimerNeverRuns ==
    \A k \in UserTimers : ~cbAfterCancel[k]

\* C7: while the dispatcher is running, all its N workers are running,
\* whatever the tasks did.
WorkersSurviveTasks ==
    running => \A w \in Workers : workerSt[w] # "exited"

\* C8: when stop() has returned, every task submitted before the call
\* has been executed.
StopDrainsQueue ==
    stopPc = "returned" => stopSnap \subseteq executed

HcStates == {"hc_check1", "hc_query", "hc_check2", "hc_drop"}

\* The next tick of the health check is on its way: its timer is armed,
\* or its handler is ready without error, or the tick is running.
NextTickPending ==
    \/ timerSt[HcTimer] = "armed"
    \/ \E i \in DOMAIN queue : queue[i] = TimerHandler(HcTimer, "ok")
    \/ \E w \in Workers : workerSt[w] \in HcStates

\* C9: after a tick that rescheduled, while the flag is not set and the
\* dispatcher is running, the next tick is on its way.
HealthCheckKeepsTicking ==
    (hcEnd = "rescheduled" /\ ~cancelFlag /\ running /\ hcTicks < MaxTicks) => NextTickPending

\* C10: at most one tick of the health check runs after the cancel flag
\* has been set.
AtMostOneTickAfterCancel == ticksAfterCancel <= 1

\* a tick ran after the flag was set
TickAfterCancelSeen == ticksAfterCancel = 1 /\ cancelFlag

\* The decision is in the hands of the executor: queued, being executed,
\* or waiting in the catch branch.
Pending(id) ==
    \/ execPc # "idle" /\ execCur.id = id
    \/ \E i \in DOMAIN execution_queue : execution_queue[i].id = id

\* C11: a decision the engine has handed to the executor causes at most
\* one call into the VM manager and one entry in the history, and exactly
\* one of each once the executor is done with it.
ConsumedExactlyOnce ==
    \A id \in Tracked :
        forwarded[id] =>
            /\ mgrCalls[id] <= 1 /\ histAppends[id] <= 1
            /\ ~Pending(id) => mgrCalls[id] = 1 /\ histAppends[id] = 1

\* C12: metrics analysed less than 2 min after the previous decision that
\* was not Maintain give Maintain, so two such decisions are at least
\* 2 min apart.
DecisionsTwoMinutesApart ==
    (anLast.gap # Never /\ anLast.gap < MinGap) => anLast.action = "Maintain"

\* a proposal to scale up came less than 2 min after a decision and was
\* collapsed
ProposalCollapsedSeen ==
    /\ emitted >= 1
    /\ anLast.proposal = "ScaleUp" /\ anLast.gap # Never /\ anLast.gap < MinGap
    /\ anLast.action = "Maintain"

\* C13: within the first 24 h (a 24-hour window) the engine fires at most
\* 50 decisions that are not Maintain.
AtMostDailyLimit == elapsed < Day => emitted <= DailyLimit

\* C14: two calls into the VM manager made for decisions of the VM are at
\* least 30 s apart.
ExecutionsSpacedByCooldown == callGap = Never \/ callGap >= Cooldown

\* C15: a decision whose execution failed, for the first, second or third
\* time, is with the executor for another attempt.
FailedExecutionRetried ==
    \A id \in Tracked :
        (execLast.id = id /\ execLast.outcome # "ok" /\ failures[id] <= 3) =>
            Pending(id)

\* C16: once a value has been written to cpu.max of the cgroup of the VM,
\* the file holds the quota of ResourceLimit.current
\* (current * 100000 for the period 100000), also after a scale and after
\* a failed write.
CurrentMatchesCgroup ==
    cgroupCpuMax # 0 => cgroupCpuMax = limitCur * CpuPeriod

\* C17: a scaleCPU call that found the VM Running or Paused, with the CPU
\* limit [CpuMin, CpuMax]: a value outside the limit is refused before
\* any libvirt call and changes nothing; a value inside it, the two ends
\* included, passes the range check and succeeds when libvirt accepts
\* it; and after a successful call CpuMin <= current <= CpuMax.
ScaleCpuRespectsLimit ==
    (vmLast.op = "scaleCPU" /\ vmLast.pre \in {"Running", "Paused"}) =>
        /\ (vmLast.arg < CpuMin \/ vmLast.arg > CpuMax) =>
              ~vmLast.ret /\ vmLast.lib = "none"
        /\ (vmLast.arg >= CpuMin /\ vmLast.arg <= CpuMax) =>
              /\ vmLast.lib # "none"
              /\ vmLast.lib = "ok" => vmLast.ret /\ limitCur = vmLast.arg
        /\ vmLast.ret => limitCur >= CpuMin /\ limitCur <= CpuMax

\* scaleCPU(max) succeeded on a paused VM
ScaleCpuToMaxSeen ==
    /\ vmLast.op = "scaleCPU" /\ vmLast.pre = "Paused"
    /\ vmLast.arg = CpuMax /\ vmLast.ret /\ limitCur = CpuMax

\* C18: migrate is refused, without a libvirt call, from every status but
\* Running; a migrate that found Running and failed leaves Running; and
\* no migrate returns with the status Migrating.
MigrateRestoresRunning ==
    vmLast.op = "migrate" =>
        /\ vmLast.pre # "Running" =>
              ~vmLast.ret /\ vmLast.lib = "none" /\ status = vmLast.pre
        /\ (vmLast.pre = "Running" /\ ~vmLast.ret) => status = "Running"
        /\ status # "Migrating"

\* a migrate of a running VM failed
MigrateFailedSeen ==
    vmLast.op = "migrate" /\ vmLast.pre = "Running" /\ vmLast.lib = "fail"

\* C19: shutdown() is accepted (goes on to virDomainShutdown) when it
\* finds the VM Running and when it finds it Paused.
ShutdownFromRunningOrPaused ==
    (vmLast.op = "shutdown" /\ vmLast.pre \in {"Running", "Paused"}) =>
        vmLast.lib # "none"

\* C20: a forced stop that finds the VM Running, Paused or in the error
\* state calls virDomainDestroy and, when that succeeds, leaves the VM
\* Stopped.
DestroyAlwaysAttempts ==
    (vmLast.op = "stop" /\ vmLast.pre \in {"Running", "Paused", "Error"}) =>
        /\ vmLast.lib # "none"
        /\ vmLast.lib = "ok" => status = "Stopped"

\* C21: after a revert of the paused VM that succeeded, the status of the
\* VM is the one the snapshot recorded (Running for a snapshot taken
\* while the VM was running), and the snapshot is still listed.
RevertRestoresSnapshotState ==
    (vmLast.op = "revertToSnapshot" /\ vmLast.ret /\ vmLast.pre = "Paused") =>
        \E s \in snapshots : s.name = vmLast.snap /\ status = s.vm_state

\* C22: allocate() adds no entry when no port of the range is free: no
\* entry of the pool is without a reserved port.
ExhaustedRangeAddsNoEntry ==
    \A i \in DOMAIN entries : entries[i].port # NoPort

SameMean(a, b) == a.sum * b.elements = b.sum * a.elements

CpuOf(usages) == [i \in 1..Len(usages) |-> usages[i].cpu]

\* C24: after k ticks in a row for the VM, its history holds the last
\* min(k, 300) samples in the order of their arrival, the 5-minute average
\* is the mean of the last min(k, 60) samples and the 15-minute average
\* that of the last min(k, 180).
HistoryHoldsLastSamples ==
    LET k == Len(arrived)
        cpu == CpuOf(arrived)
    IN k > 0 =>
        /\ vm_metrics.cpu_history = LastN(cpu, Min({k, MetricHistoryMax}))
        /\ SameMean(vm_metrics.cpu_avg_5min,
                    calculate_moving_average(cpu, Window5min))
        /\ SameMean(vm_metrics.cpu_avg_15min,
                    calculate_moving_average(cpu, Window15min))

\* C25: the decision history of a VM never holds more than 1000 entries,
\* and a call of update_decision_history leaves the history it found with
\* the new decision at its end, less some of the oldest entries, none
\* when the history it found was short of the bound.
DecisionHistoryBoundedFifo ==
    /\ Len(history) <= HistoryCap
    /\ appended > 0 =>
        LET grown == Append(historyBefore, NextNumber(historyBefore))
        IN /\ \E k \in 0..Len(grown) : history = SubSeq(grown, k + 1, Len(grown))
           /\ Len(historyBefore) < HistoryCap => history = grown

\* A history at the bound has taken one more decision and lost its oldest
\* entries.
HistoryTrimmedSeen ==
    /\ appended > 0
    /\ Len(historyBefore) = HistoryCap
    /\ Len(history) = HistoryCap + 1 - HistoryTrim
    /\ history[1] = historyBefore[HistoryTrim + 1]

\* C26: a thread that reads or writes the decision history holds
\* decision_mutex, so no two threads are in the history at once.
HistoryAccessUnderMutex ==
    /\ \A t \in Threads : at[t] \in InHistory => decision_mutex = t
    /\ \A t, u \in Threads : (at[t] \in InHistory /\ at[u] \in InHistory) => t = u

\* C27: for a VM without limits registered with the engine, the decision
\* of a metric event is Maintain and nothing is queued.
NoLimitsMeansMaintain ==
    (proposed.done /\ ~given.has_cpu_limit /\ ~given.has_mem_limit) =>
        (proposed.final.action = "Maintain" /\ proposed.queue = <<>>)

\* C28: the amount of a memory ScaleUp or ScaleDown lies between the
\* min_value and the max_value of the memory limit of the VM.
MemoryAmountWithinLimit ==
    (proposed.done /\ proposed.final.resource = "Memory") =>
        /\ ~Less64(proposed.final.amount, given.mem_limit.min_value)
        /\ ~Less64(given.mem_limit.max_value, proposed.final.amount)

CeilQuarter(current) == (current + 3) \div 4

\* C29: with cpu_percent above cpu_up_threshold and cpu_avg_5min above
\* cpu_up_threshold - 10, the CPU rule proposes ScaleUp of CPU by
\* min(current + max(1, ceil(current * 0.25)), max).
CpuScaleUpAmount ==
    (/\ proposed.done
     /\ given.has_cpu_limit
     /\ given.cpu_percent > given.th.cpu_up
     /\ given.cpu_avg_5min > given.th.cpu_up - 10) =>
        LET current == given.cpu_limit.current_value
        IN proposed.after_cpu =
               Proposal("ScaleUp", "CPU",
                        Min64(current + Max64(1, CeilQuarter(current)),
                              given.cpu_limit.max_value))

\* C30: when the CPU rule has proposed an action and the memory of the
\* VM is high (mem_pct above mem_up_threshold, its 5-minute average above
\* mem_up_threshold - 10), the memory rule replaces the action of the CPU
\* rule exactly when mem_pct > mem_up_threshold + 10.
MemoryPriorityOverCpu ==
    (/\ proposed.done
     /\ given.has_mem_limit
     /\ proposed.after_cpu.action # "Maintain"
     /\ given.mem_percent > given.th.mem_up
     /\ given.mem_avg_5min > given.th.mem_up - 10) =>
        (proposed.after_memory.resource = "Memory"
            <=> given.mem_percent > given.th.mem_up + 10)

\* C31: every proposal of the engine is computed from the current value of
\* the VM as the last executed scale left it: after ScaleUp to 3 from 2,
\* a low load gives ScaleDown to 2.
ProposalFromCurrentValue ==
    \A i \in 1..Len(decided) :
        decided[i].proposal.action # "Maintain" =>
            decided[i].proposal =
                AnalyzeCpuUsage(EventUnder(decided[i].load, decided[i].vm_before), NoProposal)

ObservedStatus(state) ==
    IF state = "Running" THEN "Running"
    ELSE IF state = "Paused" THEN "Paused" ELSE "Stopped"

\* C32: once the manager is constructed (the list of domains and the info
\* of each domain having been read), the registry holds a record for each
\* domain libvirt knows, whose status is the state observed and whose CPU
\* limit has for current value the number of vCPUs of the domain.
RegistryMirrorsLibvirt ==
    constructed = "loaded" =>
        \A n \in Names :
            libvirt_domains[n].known =>
                /\ n \in DOMAIN virtual_machines
                /\ virtual_machines[n].info_read =>
                    /\ virtual_machines[n].status = ObservedStatus(libvirt_domains[n].state)
                    /\ \E l \in virtual_machines[n].resource_limits :
                           l.current_value = libvirt_domains[n].nrVirtCpu

\* C33: when the teardown of the cgroup is over, no process that was
\* tracked is in the cgroup of the VM any more, and, unless an error was
\* caught on the way, the directory is gone if the cgroup is empty.
TeardownDetachesProcesses ==
    released # "no" =>
        /\ tracked_at_release \cap cgroup_procs = {}
        /\ (released = "returned" /\ cgroup_procs = {}) => ~cgroup_dir

\* C34: connect on an open session opens nothing and returns true, close
\* on a closed session does nothing; libvirt never has more than one
\* connection of the connector open, and no connection is closed twice.
ConnectCloseIdempotent ==
    /\ Cardinality(libvirt_open) <= 1
    /\ \A h \in Handles : closes[h] <= 1
    /\ (hlast.op = "connect" /\ hlast.was_open) => (hlast.ret /\ ~hlast.changed)
    /\ (hlast.op = "close" /\ ~hlast.was_open) => ~hlast.changed

\* connect has been called on an open session, after an earlier connection
\* was closed.
ConnectOnOpenSeen ==
    /\ hlast.op = "connect"
    /\ hlast.was_open
    /\ \E h \in Handles : closes[h] = 1

\* C35: the handle that ensureConnected returns is never that of a dead
\* connection.
EnsureReturnsLiveHandle ==
    (hlast.op = "ensureConnected" /\ hlast.handle # NullHandle) => hlast.live

\* C36: a proposal other than Maintain is forwarded whenever the last
\* forwarded decision for the VM is at least 2 min old (or there is none)
\* and fewer than 50 decisions were forwarded; metrics that evaluate to
\* Maintain do not count against the limits.
RejectedOnlyForForwardedDecisions ==
    (/\ anLast.proposal # "Maintain"
     /\ anLast.gap = Never \/ anLast.gap >= MinGap
     /\ emitted < DailyLimit)
        => anLast.action = anLast.proposal

\* The thread that t waits for: the holder of the mutex it is about to
\* lock.
WaitsFor(t) ==
    IF todo[t] # <<>> /\ Head(todo[t]).op = "lock" THEN Holder(Head(todo[t]).m) ELSE "nobody"

RECURSIVE WaitChain(_, _)
WaitChain(t, n) ==
    IF n = 0 \/ WaitsFor(t) = "nobody" THEN {}
    ELSE {WaitsFor(t)} \cup WaitChain(WaitsFor(t), n - 1)

Rank(m) ==
    CASE m = "metrics_mutex" -> 1
      [] m = "decision_mutex" -> 2
      [] m = "execution_mutex" -> 3
      [] m = "vm_map_mutex" -> 4
      [] OTHER -> 5

\* C37: the threads never deadlock: no thread waits, directly or through
\* others, for a mutex it holds itself; and the mutexes a thread holds
\* together were taken in one order (metrics, decision, execution,
\* registry, status).
NoDeadlockAcyclicOrder ==
    \A t \in Actors :
        /\ t \notin WaitChain(t, Cardinality(Actors))
        /\ \A i, j \in 1..Len(held[t]) : i < j => Rank(held[t][i]) < Rank(held[t][j])

\* The engine holds three mutexes, one inside the other, while the sampler
\* waits under metrics_mutex for decision_mutex.
NestedLocksContendedSeen ==
    /\ held["engine"] = <<"decision_mutex", "vm_map_mutex", "status_mutex">>
    /\ held["sampler"] = <<"metrics_mutex">>
    /\ WaitsFor("sampler") = "engine"

\* C38: the sampler never uses a VirtualMachine record through the
\* pointer it got from getVM once removeVM has taken that VM out of the
\* registry.
NoUseAfterRemove == sampler_use.met = "registered"

FailedScaleChangesNothing ==
    (vmLast.op = "scaleCPU" /\ ~vmLast.ret) => cfgVcpus = limitCur

====
